---- MODULE Spec2Model ----
(***************************************************************************)
(* A model of AuditLogsService, the audit-log client of the repository.    *)
(*                                                                         *)
(* The repository holds two versions of the class:                         *)
(*   "full" : src/unnamed/part_007 (log, logBulk, search, results, root,   *)
(*            logStream, downloadResults; log/logBulk end in               *)
(*            .catch(callback))                                            *)
(*   "lib"  : src/libs/utilities/src/audit-logs/services/                  *)
(*            audit-logs.service.ts (log and logBulk only, awaited)        *)
(* A service instance is one of the two; the variable variant says which.  *)
(*                                                                         *)
(* JavaScript objects are functions from the keys that are present to      *)
(* their values; a key whose value is undefined is absent.  Every await    *)
(* of the code is a point where another call of the same instance may      *)
(* run, so an operation is one action per synchronous stretch.             *)
(***************************************************************************)
EXTENDS Naturals, Sequences, FiniteSets, TLC

VARIABLES
    variant,                  \* which version of the class the instance is
    prevUnpublishedRootHash,  \* field of the instance
    publishedRoots,           \* field of the instance ("full" only)
    publishedRootsBy,         \* history: which call assigned publishedRoots
    inflight,                 \* the calls waiting at an await, per slot
    last,                     \* history: what the latest finished call gave its caller
    chain,                    \* history: every call so far was a log() with
                              \* verify = true that began with no call in flight
    latestRoot                \* history: unpublished_root of the latest result
                              \* whose processing completed and that carried one

vars == <<variant, prevUnpublishedRootHash, publishedRoots, publishedRootsBy,
          inflight, last, chain, latestRoot>>

----------------------------------------------------------------------------
(* Bounds of the model *)

MaxInFlight == 2      \* calls of one instance that may overlap
MaxEvents == 1        \* events of a bulk submission
MaxResults == 2       \* results of a bulk response

Slots == 1..MaxInFlight

----------------------------------------------------------------------------
(* Values *)

Undef == "undefined"
Variants == {"full", "lib"}
Roots == {"r1", "r2"}
Envelopes == {"e1", "e2"}
Hashes == {"h1", "h2"}
ProofValues == {"valid", "invalid"}

(* Objects: functions from present keys to values *)
EmptyObj == <<>>
Has(o, k) == k \in DOMAIN o
Get(o, k) == IF k \in DOMAIN o THEN o[k] ELSE Undef
Put(o, k, v) ==
    IF v = Undef
    THEN [x \in DOMAIN o \ {k} |-> o[x]]
    ELSE [x \in DOMAIN o \cup {k} |-> IF x = k THEN v ELSE o[x]]

BoolSet == {TRUE, FALSE}

----------------------------------------------------------------------------
(* The request context and the configuration the service is built with *)

RequestUserId == "u1"              \* this.request.user?.id
RequestOrganizationId == "org1"    \* this.request.user?.organizationId
ConfigId == "cfg1"                 \* AUDIT_LOG_CONFIG_ID
ServiceName == "svc1"              \* AUDIT_LOG_SERVICE_NAME
ClientSource == "{ip,method,userAgent}"   \* JSON.stringify({ip, method, userAgent})

(* The fields of an event that hold an object; the object is the sequence of
   its <<key, value>> pairs in insertion order, and a value is <<"str", text>>
   or <<"obj", object>> *)
ObjectFields == {"new"}

(* What a caller passes as an event: a message, an object in new with y
   before x, and its own values for the fields the service takes from the
   context *)
CallerEvents ==
    { [message |-> "a", actor |-> "mallory", tenant_id |-> "org9",
       source |-> "web", service_name |-> "svc9",
       new |-> << <<"y", <<"str", "2">> >>, <<"x", <<"str", "1">> >> >>] }

----------------------------------------------------------------------------
(* ../utils/verification is not among the sources; its functions are       *)
(* modelled from sections 4.2 and 7 of the specification: each returns a   *)
(* verdict and never throws, and "verification is skipped, not failed,     *)
(* when required inputs are absent" (no verdict).  The inputs taken as     *)
(* required are those section 4.2 names: the root and the proof of the     *)
(* result for membership, both roots and the proof for consistency.  What  *)
(* the service does with the value returned is in the sources; which       *)
(* value is returned for a missing input is not: the model takes no        *)
(* verdict, after section 7 ("absent when verification was skipped or      *)
(* inputs were unavailable").                                              *)

HashOf(envelope) == IF envelope = "e1" THEN "h1" ELSE "h2"

verifyLogHash(envelope, hash) == HashOf(envelope) = hash

(* e1 carries a valid signature, e2 an invalid one *)
verifySignature(envelope) ==
    IF envelope = Undef THEN Undef
    ELSE IF envelope = "e1" THEN "true" ELSE "false"

verifyLogMembershipProof(log, newUnpublishedRootHash) ==
    IF newUnpublishedRootHash = Undef \/ ~Has(log, "membership_proof") THEN Undef
    ELSE IF log["membership_proof"] = "valid" THEN "true" ELSE "false"

verifyLogConsistencyProof(log, newUnpublishedRoot, prevUnpublishedRoot) ==
    IF newUnpublishedRoot = Undef \/ prevUnpublishedRoot = Undef
       \/ ~Has(log, "consistency_proof") THEN Undef
    ELSE IF log["consistency_proof"] = "valid" THEN "true" ELSE "false"

(* JSON.stringify of an envelope: a string that holds the envelope *)
JSONstringify(envelope) == <<"json", envelope>>

----------------------------------------------------------------------------
(* AuditLogsService: building a request *)

(* ../utils/utils is not among the sources.  eventOrderAndStringifySubfields
   and canonicalizeEvent are modelled from section 4.1 of the specification
   (keys ordered at every level, object subfields stringified, then
   serialized); they give getLogEvent the event it sends and the text it
   signs, and no property of the canonical form itself rests on them. *)

(* the keys in their canonical order *)
KeyOrder == <<"actor", "message", "new", "service_name", "source", "tenant_id",
              "x", "y">>

KeysOf(obj) == { obj[i][1] : i \in 1..Len(obj) }
ValueOf(obj, k) == obj[CHOOSE i \in 1..Len(obj) : obj[i][1] = k][2]

(* the pairs of obj in canonical key order, from position n of KeyOrder on;
   nested objects are ordered the same way *)
RECURSIVE OrderKeys(_, _)
OrderKeys(obj, n) ==
    IF n > Len(KeyOrder) THEN <<>>
    ELSE LET k == KeyOrder[n]
             v == ValueOf(obj, k)
         IN  (IF k \in KeysOf(obj)
              THEN << <<k, IF v[1] = "obj" THEN <<"obj", OrderKeys(v[2], 1)>> ELSE v>> >>
              ELSE <<>>)
             \o OrderKeys(obj, n + 1)

(* JSON.stringify of a value: text that holds the pairs in their order *)
Stringify(v) == <<"str", <<"json", v>> >>

(* the event with its keys ordered and its object subfields ordered and
   stringified *)
eventOrderAndStringifySubfields(event) ==
    LET ordered == OrderKeys(event, 1)
    IN  [i \in 1..Len(ordered) |->
            IF ordered[i][2][1] = "obj"
            THEN <<ordered[i][1], Stringify(ordered[i][2][2])>>
            ELSE ordered[i]]

(* the canonical string of an event *)
canonicalizeEvent(event) == <<"json", eventOrderAndStringifySubfields(event)>>


(* the entries of an object as pairs in some insertion order; the fields of
   objects hold an object, the others a string *)
RECURSIVE Entries(_, _)
Entries(o, objects) ==
    IF DOMAIN o = {} THEN <<>>
    ELSE LET k == CHOOSE x \in DOMAIN o : TRUE
         IN  << <<k, <<IF k \in objects THEN "obj" ELSE "str", o[k]>> >> >>
                \o Entries([x \in DOMAIN o \ {k} |-> o[x]], objects)

(* the object that holds the pairs: a stringified subfield is its text *)
FromEntries(pairs) == [k \in KeysOf(pairs) |-> ValueOf(pairs, k)[2]]

(* options.signer: an object of the caller with sign, getPublicKey, getAlgorithm *)
Signers == { [key |-> "k1", algorithm |-> "ED25519"],
             [key |-> "k2", algorithm |-> "RSA"] }
sign(signer, text) == <<"sig", signer.key, text>>
getPublicKey(signer) == signer.key
getAlgorithm(signer) == signer.algorithm

NoError == [name |-> "none"]
TransportError == [name |-> "AxiosError"]

(* the event the context's fields are written over, ordered and with its
   object-valued fields stringified *)
orderedEvent(v, event) ==
    LET e1 == Put(event, "tenant_id", RequestOrganizationId)
        e2 == Put(e1, "actor", RequestUserId)
        e3 == Put(e2, "source", ClientSource)
        e4 == IF v = "full" THEN Put(e3, "service_name", ServiceName) ELSE e3
        ordered == eventOrderAndStringifySubfields(Entries(e4, ObjectFields))
    IN  [entries |-> ordered, object |-> FromEntries(ordered)]

(* orderedEvent of every event a caller passes, computed once *)
OrderedEventFor ==
    [v \in Variants |-> [event \in CallerEvents |-> orderedEvent(v, event)]]

(* orderedEvent(v, event), looked up when it was computed already *)
orderedEventOf(v, event) ==
    IF event \in CallerEvents THEN OrderedEventFor[v][event]
    ELSE orderedEvent(v, event)

(* getLogEvent in which the entries of options.publicKeyInfo win *)
getLogEvent_InfoWins(v, event, options) ==
    LET ordered == orderedEventOf(v, event).entries
        data == [event |-> orderedEventOf(v, event).object, config_id |-> ConfigId]
    IN  IF Has(options, "signer")
        THEN LET signer == options["signer"]
                 signature == sign(signer, canonicalizeEvent(ordered))
                 given == IF Has(options, "publicKeyInfo")
                          THEN options["publicKeyInfo"] ELSE EmptyObj
                 publicKeyInfo == given @@ ("key" :> getPublicKey(signer))
                                        @@ ("algorithm" :> getAlgorithm(signer))
             IN  ("signature" :> signature)
                    @@ ("public_key" :> JSONstringify(publicKeyInfo)) @@ data
        ELSE data

(* getLogEvent: the caller's event with the context's fields written over it,
   signed when options.signer is given. The "lib" version does not set
   service_name. *)
getLogEvent(v, event, options) ==
    LET ordered == orderedEventOf(v, event).entries
        data == [event |-> orderedEventOf(v, event).object, config_id |-> ConfigId]
    IN  IF Has(options, "signer")
        THEN LET signer == options["signer"]
                 signature == sign(signer, canonicalizeEvent(ordered))
                 given == IF Has(options, "publicKeyInfo")
                          THEN options["publicKeyInfo"] ELSE EmptyObj
                 publicKeyInfo == ("key" :> getPublicKey(signer))
                                     @@ ("algorithm" :> getAlgorithm(signer)) @@ given
             IN  ("signature" :> signature)
                    @@ ("public_key" :> JSONstringify(publicKeyInfo)) @@ data
        ELSE data

(* setRequestFields without the chaining of prev_root *)
setRequestFields_NoChain(data, options, prev) ==
    IF options.verbose \/ options.verify THEN Put(data, "verbose", "true") ELSE data

(* setRequestFields(data, options), reading this.prevUnpublishedRootHash *)
setRequestFields(data, options, prev) ==
    LET d1 == IF options.verbose THEN Put(data, "verbose", "true") ELSE data
    IN  IF options.verify
        THEN LET d2 == Put(d1, "verbose", "true")
             IN  IF prev # Undef THEN Put(d2, "prev_root", prev) ELSE d2
        ELSE d1

----------------------------------------------------------------------------
(* AuditLogsService: processing a log result *)

(* verifyHash without the comparison *)
verifyHash_Accepting(envelope, hash) == NoError

(* verifyHash: the exception it throws, or NoError *)
verifyHash(envelope, hash) ==
    IF envelope = Undef \/ hash = Undef THEN NoError
    ELSE IF ~verifyLogHash(envelope, hash)
         THEN [name |-> "InternalServerErrorException",
               message |-> <<"Error: Fail event hash verification. Hash: ", hash>>,
               description |-> JSONstringify(envelope)]
         ELSE NoError

(* The assignment without its guard *)
UpdatePrevRoot_Unguarded(newUnpublishedRootHash, prev) == newUnpublishedRootHash

(* The assignment that ends processLogResponse *)
UpdatePrevRoot(newUnpublishedRootHash, prev) ==
    IF newUnpublishedRootHash # Undef THEN newUnpublishedRootHash ELSE prev

VerdictKeys == {"membership_verification", "consistency_verification"}

(* The fields processLogResponse assigns on a result whose hash check passed:
   result.signature_verification = ... unless skipEventVerification, and
   result.membership_verification = ..., result.consistency_verification = ...
   if options.verify *)
FieldsAssigned(options) ==
    (IF ~options.skipEventVerification THEN {"signature_verification"} ELSE {})
    \cup (IF options.verify THEN VerdictKeys ELSE {})

(* processLogResponse that throws on a negative signature verdict *)
processLogResponse_VerdictFatal(result, options, prev) ==
    LET newUnpublishedRootHash == Get(result, "unpublished_root")
        verdict == verifySignature(Get(result, "envelope"))
    IN  IF ~options.skipEventVerification /\ verdict = "false"
        THEN [error |-> [name |-> "InternalServerErrorException",
                         message |-> <<"signature", Get(result, "hash")>>,
                         description |-> JSONstringify(Get(result, "envelope"))],
              result |-> result, prev |-> prev, consPrev |-> "unused",
              assigned |-> {}]
        ELSE [error |-> NoError, result |-> result,
              prev |-> UpdatePrevRoot(newUnpublishedRootHash, prev),
              consPrev |-> "unused", assigned |-> {}]

(* processLogResponse that writes the field before it verifies *)
processLogResponse_UpdateFirst(result, options, prev) ==
    LET newUnpublishedRootHash == Get(result, "unpublished_root")
        updated == UpdatePrevRoot(newUnpublishedRootHash, prev)
        err == IF ~options.skipEventVerification
               THEN verifyHash(Get(result, "envelope"), Get(result, "hash"))
               ELSE NoError
        r1 == IF ~options.skipEventVerification
              THEN Put(result, "signature_verification",
                       verifySignature(Get(result, "envelope")))
              ELSE result
        r2 == IF options.verify
              THEN Put(Put(r1, "membership_verification",
                           verifyLogMembershipProof(r1, newUnpublishedRootHash)),
                       "consistency_verification",
                       verifyLogConsistencyProof(r1, newUnpublishedRootHash, updated))
              ELSE r1
    IN  IF err # NoError
        THEN [error |-> err, result |-> result, prev |-> updated,
              consPrev |-> "unused", assigned |-> {}]
        ELSE [error |-> NoError, result |-> r2, prev |-> updated,
              consPrev |-> IF options.verify THEN updated ELSE "unused",
              assigned |-> FieldsAssigned(options)]

(* processLogResponse that asks for the proofs whatever options.verify holds *)
processLogResponse_VerifyUnasked(result, options, prev) ==
    LET newUnpublishedRootHash == Get(result, "unpublished_root")
        err == IF ~options.skipEventVerification
               THEN verifyHash(Get(result, "envelope"), Get(result, "hash"))
               ELSE NoError
        r1 == IF ~options.skipEventVerification
              THEN Put(result, "signature_verification",
                       verifySignature(Get(result, "envelope")))
              ELSE result
        r2 == Put(Put(r1, "membership_verification",
                      verifyLogMembershipProof(r1, newUnpublishedRootHash)),
                  "consistency_verification",
                  verifyLogConsistencyProof(r1, newUnpublishedRootHash, prev))
    IN  IF err # NoError
        THEN [error |-> err, result |-> result, prev |-> prev,
              consPrev |-> "unused", assigned |-> {}]
        ELSE [error |-> NoError, result |-> r2,
              prev |-> UpdatePrevRoot(newUnpublishedRootHash, prev),
              consPrev |-> prev,
              assigned |-> FieldsAssigned(options) \cup VerdictKeys]

(* processLogResponse(result, options) with this.prevUnpublishedRootHash = prev.
   error: what it threw; result: the result object as it leaves it; prev: the
   field afterwards; consPrev: the previous root handed to
   verifyLogConsistencyProof ("unused" when it was not called); assigned: the
   fields of result it made an assignment to, whatever value the verifier
   returned. *)
processLogResponse(result, options, prev) ==
    LET newUnpublishedRootHash == Get(result, "unpublished_root")
        err == IF ~options.skipEventVerification
               THEN verifyHash(Get(result, "envelope"), Get(result, "hash"))
               ELSE NoError
        r1 == IF ~options.skipEventVerification
              THEN Put(result, "signature_verification",
                       verifySignature(Get(result, "envelope")))
              ELSE result
        r2 == IF options.verify
              THEN Put(Put(r1, "membership_verification",
                           verifyLogMembershipProof(r1, newUnpublishedRootHash)),
                       "consistency_verification",
                       verifyLogConsistencyProof(r1, newUnpublishedRootHash, prev))
              ELSE r1
    IN  IF err # NoError
        THEN [error |-> err, result |-> result, prev |-> prev,
              consPrev |-> "unused", assigned |-> {}]
        ELSE [error |-> NoError, result |-> r2,
              prev |-> UpdatePrevRoot(newUnpublishedRootHash, prev),
              consPrev |-> IF options.verify THEN prev ELSE "unused",
              assigned |-> FieldsAssigned(options)]

(* response.result.results.forEach(result => processLogResponse(result, options)):
   results are processed in order and the first exception ends the loop.
   done: how many results were processed to the end; assigned: the fields
   assigned on each result. *)
RECURSIVE processResults(_, _, _)
processResults(results, options, prev) ==
    IF results = <<>>
    THEN [error |-> NoError, results |-> <<>>, prev |-> prev, done |-> 0,
          assigned |-> <<>>]
    ELSE LET p == processLogResponse(Head(results), options, prev)
         IN  IF p.error # NoError
             THEN [error |-> p.error, results |-> results, prev |-> prev, done |-> 0,
                   assigned |-> [i \in 1..Len(results) |-> {}]]
             ELSE LET rest == processResults(Tail(results), options, p.prev)
                  IN  [error |-> rest.error,
                       results |-> <<p.result>> \o rest.results,
                       prev |-> rest.prev,
                       done |-> rest.done + 1,
                       assigned |-> <<p.assigned>> \o rest.assigned]

----------------------------------------------------------------------------
(* Inputs: options of a call, responses of the log endpoints *)

(* The options a caller passes to log and logBulk: every combination of verify
   and skipEventVerification, and verbose alone *)
LogOptions ==
    { o \in [verbose : BoolSet, verify : BoolSet, skipEventVerification : BoolSet] :
        o.verbose => (~o.verify /\ ~o.skipEventVerification) }

(* envelope and hash of a result: matching with a valid signature, matching with
   an invalid signature, not matching, no hash, no envelope *)
EnvHashShapes == { <<"e1", "h1">>, <<"e2", "h2">>, <<"e1", "h2">>,
                   <<"e1", Undef>>, <<Undef, "h1">> }

(* The proofs a result may carry: none, or both, of which at most one invalid *)
ProofShapes == { <<Undef, Undef>>, <<"valid", "valid">>,
                 <<"valid", "invalid">>, <<"invalid", "valid">> }

LogResult(envelope, hash, root, proofs) ==
    Put(Put(Put(Put(Put(EmptyObj, "envelope", envelope), "hash", hash),
                "unpublished_root", root),
            "membership_proof", proofs[1]),
        "consistency_proof", proofs[2])

(* response.result of v1/log: every envelope and hash shape; a matching and a
   mismatching result with every root; every proof shape; and the answer of
   the endpoint to a request that was not verbose, a hash alone *)
LogResults ==
    { LogResult(eh[1], eh[2], "r1", <<"valid", "valid">>) : eh \in EnvHashShapes }
    \cup { LogResult(eh[1], eh[2], r, <<"valid", "valid">>) :
             eh \in { <<"e1", "h1">>, <<"e1", "h2">> }, r \in {"r2", Undef} }
    \cup { LogResult("e1", "h1", "r2", p) : p \in ProofShapes }
    \cup { LogResult(Undef, "h1", Undef, <<Undef, Undef>>) }

(* an element of response.result.results of v2/log: a matching result with
   the root r2 and one without a root, a mismatching one, and one with an
   invalid signature and the root r1; both proofs present and valid *)
BulkResults ==
    { LogResult("e1", "h1", r, <<"valid", "valid">>) : r \in {"r2", Undef} }
    \cup { LogResult("e1", "h2", "r2", <<"valid", "valid">>),
           LogResult("e2", "h2", "r1", <<"valid", "valid">>) }

SeqsUpTo(S, n) == UNION { [1..k -> S] : k \in 0..n }

----------------------------------------------------------------------------
(* Calls in flight and finished calls *)

Idle == [op |-> "idle"]
NoCall == [op |-> "none"]

AllIdle == \A s \in Slots : inflight[s].op = "idle"

(* A call takes the lowest free slot *)
FreeSlot(s) ==
    /\ inflight[s].op = "idle"
    /\ \A t \in Slots : t < s => inflight[t].op # "idle"

Begin(s, call) == [inflight EXCEPT ![s] = call]

(* The calls of f that wait, in the order they began, in the lowest slots:
   which slot holds a call means nothing to the service, so log and logBulk
   keep the calls that wait in this one arrangement *)
IsWaiting(call) == call.op # "idle"

Waiting(f) ==
    LET w == SelectSeq(f, IsWaiting)
    IN  [k \in Slots |-> IF k <= Len(w) THEN w[k] ELSE Idle]

(* The calls in flight once the call of slot s has ended after processing done
   of its results to the end (s = 0: processLogResponse called directly, no
   call ends).  History: a log call with verify that is still in flight
   records that a result of another call was processed after it built its
   request. *)
Release(s, done) ==
    Waiting([t \in Slots |->
                IF t = s THEN Idle
                ELSE IF done > 0 /\ inflight[t].op = "log" /\ inflight[t].options.verify
                THEN [inflight[t] EXCEPT !.overtaken = TRUE]
                ELSE inflight[t]])

(* How an operation ends for its caller:
     "returned"  the promise resolves with the response
     "rejected"  the promise rejects with error
     "caught"    .catch(callback) hands error to the callback the caller
                 passed; the promise resolves with what the callback returns
     "swallowed" the caller passed no callback: .catch(() => {}) drops error
                 and the promise resolves with undefined
   received: the results as the endpoint sent them; processed: the same
   objects as processLogResponse left them; done: how many of them were
   processed to the end; assigned: the fields processLogResponse assigned on
   each of them. *)
Finished(call, kind, error, received, processed, consPrev, done, assigned) ==
    [op |-> call.op, options |-> call.options, data |-> call.data,
     posts |-> call.posts, passed |-> call.passed,
     overtaken |-> IF call.op = "log" THEN call.overtaken ELSE FALSE,
     kind |-> kind, error |-> error, received |-> received,
     processed |-> processed, consPrev |-> consPrev, done |-> done,
     assigned |-> assigned]

(* The callback argument of log and logBulk: the default () => {} or a
   function of the caller.  It is chosen where it is first used. *)
Callbacks == {"default", "own"}

(* log and logBulk of "full" end in .catch(callback); those of "lib" are awaited *)
FailureKind(v, callback) ==
    IF v = "full"
    THEN IF callback = "default" THEN "swallowed" ELSE "caught"
    ELSE "rejected"

(* unpublished_root of the last of the first n results that carries one *)
RECURSIVE RootOfLatest(_, _, _)
RootOfLatest(results, n, before) ==
    IF n = 0 THEN before
    ELSE IF Has(results[n], "unpublished_root") THEN results[n]["unpublished_root"]
    ELSE RootOfLatest(results, n - 1, before)

----------------------------------------------------------------------------
(* log(event, options, callback) *)

(* options.publicKeyInfo of a caller *)
PublicKeyInfos ==
    { [owner |-> "bob"], [key |-> "k9"], [algorithm |-> "a9", owner |-> "bob"],
      [key |-> "k9", algorithm |-> "a9"] }

(* options with or without a signer and with or without publicKeyInfo *)
SignedOptions ==
    LET bases == { [verbose |-> FALSE, verify |-> v, skipEventVerification |-> FALSE] :
                      v \in BoolSet }
        extras == {EmptyObj}
                  \cup { "signer" :> sg : sg \in Signers }
                  \cup { "publicKeyInfo" :> info : info \in PublicKeyInfos }
                  \cup { ("signer" :> sg) @@ ("publicKeyInfo" :> info) :
                            sg \in Signers, info \in PublicKeyInfos }
    IN  { x @@ b : x \in extras, b \in bases }

(* up to the POST of v1/log *)
LogCallWith(s, Options) ==
    /\ FreeSlot(s)
    /\ \E event \in CallerEvents, options \in Options :
         LET data == setRequestFields(getLogEvent(variant, event, options), options,
                                      prevUnpublishedRootHash)
         IN  /\ inflight' = Begin(s, [op |-> "log", options |-> options,
                                      data |-> data, posts |-> 1,
                                      passed |-> options, overtaken |-> FALSE])
             /\ chain' = (chain /\ options.verify /\ AllIdle)
    /\ last' = NoCall
    /\ UNCHANGED <<variant, prevUnpublishedRootHash, publishedRoots,
                   publishedRootsBy, latestRoot>>

LogCall(s) == LogCallWith(s, LogOptions)

(* the POST resolves: processLogResponse(response.result, options) *)
LogResolve(s) ==
    /\ inflight[s].op = "log"
    /\ \E result \in LogResults :
         \E call \in {inflight[s]} :
         \E p \in {processLogResponse(result, call.options, prevUnpublishedRootHash)} :
             IF p.error = NoError
             THEN /\ prevUnpublishedRootHash' = p.prev
                  /\ latestRoot' = RootOfLatest(<<result>>, 1, latestRoot)
                  /\ last' = Finished(call, "returned", NoError, <<result>>,
                                      <<p.result>>, p.consPrev, 1, <<p.assigned>>)
                  /\ inflight' = Release(s, 1)
             ELSE /\ prevUnpublishedRootHash' = p.prev
                  /\ latestRoot' = latestRoot
                  /\ \E callback \in Callbacks :
                       last' = Finished(call, FailureKind(variant, callback), p.error,
                                        <<result>>, <<p.result>>, p.consPrev, 0,
                                        <<p.assigned>>)
                  /\ inflight' = Release(s, 0)
    /\ UNCHANGED <<variant, publishedRoots, publishedRootsBy, chain>>

(* the POST fails *)
LogReject(s) ==
    /\ inflight[s].op = "log"
    /\ \E callback \in Callbacks :
         last' = Finished(inflight[s], FailureKind(variant, callback), TransportError,
                          <<>>, <<>>, "unused", 0, <<>>)
    /\ inflight' = Release(s, 0)
    /\ UNCHANGED <<variant, prevUnpublishedRootHash, publishedRoots,
                   publishedRootsBy, chain, latestRoot>>

----------------------------------------------------------------------------
(* logBulk(events, options, callback) *)

(* logBulk without the assignment to options.verify *)
BulkOptions_Kept(options) == options

(* options.verify = false; // Bulk API does not verify *)
BulkOptions(options) == [options EXCEPT !.verify = FALSE]

(* options.verbose as the object of the caller holds it: true; or, where
   the options record says FALSE, no such key or false *)
VerboseGiven(options) ==
    IF options.verbose THEN {"true"} ELSE {Undef, "false"}

(* The calls of log in flight that may have been given the object that is now
   given to logBulk: those whose options hold what this object holds *)
SharingCalls(options) ==
    { t \in Slots : inflight[t].op = "log" /\ inflight[t].options = options }

(* The calls in flight once logBulk has begun in slot s with an object that
   the calls of shared were given too: options.verify = false is an
   assignment to that object, and the calls that wait read it when their
   answer is processed *)
BeginBulk(s, call, shared) ==
    [t \in Slots |->
        IF t = s THEN call
        ELSE IF t \in shared
        THEN [inflight[t] EXCEPT !.options = BulkOptions(inflight[t].options)]
        ELSE inflight[t]]

(* The request of logBulk: verbose: options.verbose, whatever it holds;
   "lib" sends no config_id *)
BulkRequest(v, events, options, verbose) ==
    LET logEvents == [i \in 1..Len(events) |-> getLogEvent(v, events[i], options)]
        d == [events |-> logEvents]
        d1 == Put(d, "verbose", verbose)
    IN  IF v = "full" THEN Put(d1, "config_id", ConfigId) ELSE d1

(* "full" returns { result: { results: [] } } for no events, without a POST *)
LogBulkEmpty ==
    /\ variant = "full"
    /\ \E options \in LogOptions :
         last' = [op |-> "logBulk", options |-> options, data |-> EmptyObj,
                  posts |-> 0, passed |-> options, overtaken |-> FALSE,
                  kind |-> "returned", error |-> NoError, received |-> <<>>,
                  processed |-> <<>>, consPrev |-> "unused", done |-> 0,
                  assigned |-> <<>>]
    /\ chain' = FALSE
    /\ UNCHANGED <<variant, prevUnpublishedRootHash, publishedRoots,
                   publishedRootsBy, inflight, latestRoot>>

(* up to the POST of v2/log *)
LogBulkCall(s) ==
    /\ FreeSlot(s)
    /\ \E events \in SeqsUpTo(CallerEvents, MaxEvents), options \in LogOptions :
         /\ variant = "full" => events # <<>>
         /\ \E verbose \in VerboseGiven(options),
               shared \in SUBSET SharingCalls(options) :
              inflight' = BeginBulk(s, [op |-> "logBulk",
                                        options |-> BulkOptions(options),
                                        data |-> BulkRequest(variant, events, options,
                                                             verbose),
                                        posts |-> 1, passed |-> options],
                                    shared)
    /\ last' = NoCall
    /\ chain' = FALSE
    /\ UNCHANGED <<variant, prevUnpublishedRootHash, publishedRoots,
                   publishedRootsBy, latestRoot>>

(* the POST resolves: every result goes through processLogResponse *)
LogBulkResolve(s) ==
    /\ inflight[s].op = "logBulk"
    /\ \E results \in SeqsUpTo(BulkResults, MaxResults) :
         \E call \in {inflight[s]} :
         \E p \in {processResults(results, call.options, prevUnpublishedRootHash)} :
             /\ prevUnpublishedRootHash' = p.prev
             /\ latestRoot' = RootOfLatest(results, p.done, latestRoot)
             /\ IF p.error = NoError
                THEN last' = Finished(call, "returned", NoError, results,
                                      p.results, "unused", p.done, p.assigned)
                ELSE \E callback \in Callbacks :
                        last' = Finished(call, FailureKind(variant, callback), p.error,
                                         results, p.results, "unused", p.done,
                                         p.assigned)
             /\ inflight' = Release(s, p.done)
    /\ UNCHANGED <<variant, publishedRoots, publishedRootsBy, chain>>

(* the POST fails *)
LogBulkReject(s) ==
    /\ inflight[s].op = "logBulk"
    /\ \E callback \in Callbacks :
         last' = Finished(inflight[s], FailureKind(variant, callback), TransportError,
                          <<>>, <<>>, "unused", 0, <<>>)
    /\ inflight' = Release(s, 0)
    /\ UNCHANGED <<variant, prevUnpublishedRootHash, publishedRoots,
                   publishedRootsBy, chain, latestRoot>>

----------------------------------------------------------------------------
(* The service after construction, and its log operations *)

Init ==
    /\ variant \in Variants
    /\ prevUnpublishedRootHash = Undef
    /\ publishedRoots = EmptyObj
    /\ publishedRootsBy = "constructor"
    /\ inflight = [s \in Slots |-> Idle]
    /\ last = NoCall
    /\ chain = TRUE
    /\ latestRoot = Undef

(* processLogResponse and verifyHash are public in "lib": a caller can hand
   them an object of its own.  The results a caller hands over: one with a
   root, one with a hash mismatch and a root, one with a hash alone. *)
DirectResults ==
    { LogResult("e1", "h1", "r2", <<"valid", "valid">>),
      LogResult("e1", "h2", "r1", <<"valid", "valid">>),
      LogResult(Undef, "h1", Undef, <<Undef, Undef>>) }

(* processLogResponse(result, options) called directly: no request is sent *)
ProcessLogResponse ==
    /\ variant = "lib"
    /\ \E result \in DirectResults,
          options \in { o \in LogOptions : ~o.verbose /\ ~o.skipEventVerification } :
         \E p \in {processLogResponse(result, options, prevUnpublishedRootHash)} :
         \E ok \in {p.error = NoError} :
             /\ prevUnpublishedRootHash' = p.prev
             /\ latestRoot' = IF ok THEN RootOfLatest(<<result>>, 1, latestRoot)
                              ELSE latestRoot
             /\ last' = [op |-> "processLogResponse", options |-> options,
                         data |-> EmptyObj, posts |-> 0, passed |-> options,
                         overtaken |-> FALSE,
                         kind |-> IF ok THEN "returned" ELSE "raised",
                         error |-> p.error, received |-> <<result>>,
                         processed |-> <<p.result>>, consPrev |-> p.consPrev,
                         done |-> IF ok THEN 1 ELSE 0,
                         assigned |-> <<p.assigned>>]
             /\ inflight' = IF ok THEN Release(0, 1) ELSE inflight
    /\ chain' = FALSE
    /\ UNCHANGED <<variant, publishedRoots, publishedRootsBy>>

(* verifyHash(envelope, hash) called directly *)
VerifyHash ==
    /\ variant = "lib"
    /\ \E result \in DirectResults :
         \E err \in {verifyHash(Get(result, "envelope"), Get(result, "hash"))} :
             last' = [op |-> "verifyHash", options |-> [skipEventVerification |-> FALSE],
                     data |-> EmptyObj, posts |-> 0,
                     kind |-> IF err = NoError THEN "returned" ELSE "raised",
                     error |-> err, received |-> <<result>>,
                     processed |-> <<result>>, done |-> 0]
    /\ chain' = FALSE
    /\ UNCHANGED <<variant, prevUnpublishedRootHash, publishedRoots,
                   publishedRootsBy, inflight, latestRoot>>

(* log and logBulk of callers that do not await each other, and the direct
   calls of processLogResponse and verifyHash, which are synchronous and may be
   made while a call waits for its answer *)
NextLog ==
    \/ ProcessLogResponse
    \/ VerifyHash
    \/ \E s \in Slots : LogCall(s)
    \/ \E s \in Slots : LogResolve(s)
    \/ \E s \in Slots : LogReject(s)
    \/ LogBulkEmpty
    \/ \E s \in Slots : LogBulkCall(s)
    \/ \E s \in Slots : LogBulkResolve(s)
    \/ \E s \in Slots : LogBulkReject(s)

SpecLog == Init /\ [][NextLog]_vars

----------------------------------------------------------------------------
(* search, results: inputs *)

MaxRecords == 2       \* events of a search response
MaxEdges == 2         \* transactions the anchoring index returns

(* Tree sizes travel as numbers and as strings: the index is asked for
   "${size}", its tags answer with strings, and leaf_index is a string *)
Digits == <<"0", "1", "2", "3", "4", "5">>
String(n) == Digits[n + 1]
Number(str) == CHOOSE n \in 0..(Len(Digits) - 1) : Digits[n + 1] = str

Range(seq) == { seq[i] : i \in 1..Len(seq) }

SearchOps == {"search", "results"}

(* the operations that run processSearchResponse *)
ResponseOps == SearchOps \cup {"processSearchResponse"}

SearchOptions == [skipEventVerification : BoolSet, verifyConsistency : BoolSet]

(* queryOptions of search(): none, or a limit and verbose: false *)
QueryOptions == { EmptyObj, [limit |-> "5", verbose |-> "false"] }

(* The records of a response: one with published: false, one with
   published: true, one without the key.  membership_proof names the root
   hash the proof is valid for. *)
SearchRecords ==
    { [envelope |-> "e2", hash |-> "h2", leaf_index |-> "0", published |-> "false",
       membership_proof |-> "p", consistency_proof |-> "valid"],
      [envelope |-> "e1", hash |-> "h1", leaf_index |-> "1", published |-> "true",
       membership_proof |-> "p", consistency_proof |-> "invalid"],
      [envelope |-> "e1", hash |-> "h2"] }

(* response.result.root: undefined, without a size, or of size 3 *)
NoRoot == <<>>

ResponseRoots ==
    { NoRoot,
      [tree_name |-> "t", root_hash |-> "p"],
      [tree_name |-> "t", root_hash |-> "p", size |-> 3] }

UnpublishedRoot == [tree_name |-> "t", root_hash |-> "u", size |-> 4]

(* What the live server answers for the root of a size, and what an anchored
   transaction holds for it *)
ServerRoot(size) == [tree_name |-> "t", root_hash |-> "p", size |-> size]
AnchoredRoot(key, nodeId) ==
    [tree_name |-> "t", root_hash |-> "p", size |-> Number(key), transactionId |-> nodeId]

(* The edges the index answers with: transactions tagged with sizes that were
   asked for, in the order asked, or one transaction without a tree_size tag *)
RECURSIVE SubSeqs(_)
SubSeqs(seq) ==
    IF seq = <<>> THEN { <<>> }
    ELSE LET rest == SubSeqs(Tail(seq))
         IN  rest \cup { <<Head(seq)>> \o r : r \in rest }

EdgesFor(sizes) ==
    { [i \in 1..Len(sub) |-> [id |-> "tx", tree_size |-> String(sub[i])]] :
        sub \in { x \in SubSeqs(sizes) : Len(x) <= MaxEdges } }
    \cup { << [id |-> "tx"] >> }

----------------------------------------------------------------------------
(* ../utils/verification for records, modelled from the specification *)

verifyRecordMembershipProof(root, record) ==
    IF ~Has(record, "membership_proof") THEN Undef
    ELSE IF root = NoRoot THEN Undef
    ELSE IF root["root_hash"] = record["membership_proof"] THEN "true" ELSE "false"

(* The roots a record is checked against are those of the sizes before and
   after it was appended *)
verifyRecordConsistencyProof(roots, record) ==
    IF ~Has(record, "leaf_index") \/ ~Has(record, "consistency_proof") THEN Undef
    ELSE LET idx == Number(record["leaf_index"])
         IN  IF ~Has(roots, String(idx + 1)) \/ (idx > 0 /\ ~Has(roots, String(idx)))
             THEN Undef
             ELSE IF record["consistency_proof"] = "valid" THEN "true" ELSE "false"

----------------------------------------------------------------------------
(* processSearchResponse and getArweavePublishedRoots *)

(* search(): query, then the defaults, then queryOptions; verbose forced *)
Assign(target, source) ==
    [k \in DOMAIN target \cup DOMAIN source |->
        IF k \in DOMAIN source THEN source[k] ELSE target[k]]

(* search() that assigns the defaults after queryOptions *)
SearchPayload_DefaultsLast(query, queryOptions, options) ==
    LET defaults == [limit |-> "20", order |-> "desc", order_by |-> "received_at",
                     config_id |-> ConfigId]
        payload == Assign(Assign([query |-> query], queryOptions), defaults)
    IN  IF options.verifyConsistency THEN Put(payload, "verbose", "true") ELSE payload

SearchPayload(query, queryOptions, options) ==
    LET defaults == [limit |-> "20", order |-> "desc", order_by |-> "received_at",
                     config_id |-> ConfigId]
        payload == Assign(Assign([query |-> query], defaults), queryOptions)
    IN  IF options.verifyConsistency THEN Put(payload, "verbose", "true") ELSE payload

ResultsPayload(id, limit, offset) == [id |-> id, limit |-> limit, offset |-> offset]

(* events.forEach without verifyHash *)
verifyRecords_NoHashCheck(events) ==
    [error |-> NoError,
     events |-> [i \in 1..Len(events) |->
                    Put(events[i], "signature_verification",
                        verifySignature(Get(events[i], "envelope")))]]

(* events.forEach: verifyHash, then signature_verification; the first
   exception ends the loop *)
RECURSIVE verifyRecords(_)
verifyRecords(events) ==
    IF events = <<>> THEN [error |-> NoError, events |-> <<>>]
    ELSE LET record == Head(events)
             err == verifyHash(Get(record, "envelope"), Get(record, "hash"))
         IN  IF err # NoError THEN [error |-> err, events |-> events]
             ELSE LET rest == verifyRecords(Tail(events))
                  IN  [error |-> rest.error,
                       events |-> << Put(record, "signature_verification",
                                         verifySignature(Get(record, "envelope"))) >>
                                  \o rest.events]

(* treeSizes.add *)
AddSize(sizes, n) == IF n \in Range(sizes) THEN sizes ELSE Append(sizes, n)

(* the sizes one record adds: idx + 1, and idx when idx > 0 *)
RecordSizes_Both(sizes, record) ==
    IF Has(record, "leaf_index")
    THEN LET idx == Number(record["leaf_index"])
         IN  AddSize(AddSize(sizes, idx + 1), idx)
    ELSE sizes

RecordSizes(sizes, record) ==
    IF Has(record, "leaf_index")
    THEN LET idx == Number(record["leaf_index"])
             s1 == AddSize(sizes, idx + 1)
         IN  IF idx > 0 THEN AddSize(s1, idx) ELSE s1
    ELSE sizes

(* Array.from(treeSizes): root?.size ?? 0, then the sizes of every record *)
RECURSIVE AddRecords(_, _)
AddRecords(sizes, events) ==
    IF events = <<>> THEN sizes
    ELSE AddRecords(RecordSizes(sizes, Head(events)), Tail(events))

TreeSizes(root, events) ==
    AddRecords(<< IF Has(root, "size") THEN root["size"] ELSE 0 >>, events)

(* the condition of the fallback loop, without the test of publishedRoots *)
NeedsFetch_Always(treeSize, roots) == treeSize # 0

(* if (treeSize && !(treeSize in publishedRoots)) *)
NeedsFetch(treeSize, roots) == treeSize # 0 /\ ~Has(roots, String(treeSize))

(* record.published as a condition: true, not false and not missing *)
Published(record) == Get(record, "published") = "true"

(* the verdicts of the last loop of processSearchResponse *)
VerifyConsistency(events, root, unpublished, roots) ==
    [i \in 1..Len(events) |->
        LET record == events[i]
            against == IF Published(record) THEN root ELSE unpublished
        IN  Put(Put(record, "membership_verification",
                    verifyRecordMembershipProof(against, record)),
                "consistency_verification",
                verifyRecordConsistencyProof(roots, record))]

----------------------------------------------------------------------------
(* search(query, queryOptions, options), results(id, limit, offset, options) *)

(* A search or results call in flight.  pc is the request it awaits:
     "post"   the POST of v1/search or v1/results
     "index"  the POST of the anchoring index
     "tx"     the fetch of the transaction of Head(edges)
     "root"   fetchRoot(sizes[idx])
   data is what that request carries.  local is publishedRoots of
   getArweavePublishedRoots; anchored, called and fetched record the sizes
   the transactions resolved, those fetchRoot was invoked for and those it
   returned a root for. *)
Received(call, success, events, processed, root) ==
    [op |-> call.op, options |-> call.options, data |-> call.data,
     posts |-> call.posts, pc |-> call.pc,
     success |-> success, received |-> events, events |-> processed,
     root |-> root, resolver |-> FALSE, sizes |-> <<>>, edges |-> <<>>,
     local |-> EmptyObj, idx |-> 0, anchored |-> {}, called |-> {}, fetched |-> {}]

(* How a search or results call ends.  rootsUsed says where the mapping given
   to verifyRecordConsistencyProof came from; anchoringFailed that the index
   or a transaction could not be fetched. *)
Ended(call, kind, error, rootsUsed, anchoringFailed) ==
    [op |-> call.op, options |-> call.options, posts |-> call.posts,
     kind |-> kind, error |-> error, success |-> call.success,
     received |-> call.received, processed |-> call.events, root |-> call.root,
     resolver |-> call.resolver, sizes |-> call.sizes, anchored |-> call.anchored,
     called |-> call.called, fetched |-> call.fetched,
     resolved |-> { Number(k) : k \in DOMAIN call.local },
     rootsUsed |-> rootsUsed, anchoringFailed |-> anchoringFailed]

RootParams(size) == IF size > 0 THEN [tree_size |-> size] ELSE EmptyObj

IndexQuery(treeName, treeSizes) ==
    [tree_name |-> treeName,
     tree_size |-> [i \in 1..Len(treeSizes) |-> String(treeSizes[i])]]

(* if (!treeSizeTags.length) continue *)
RECURSIVE SkipUntagged(_)
SkipUntagged(edges) ==
    IF edges = <<>> THEN <<>>
    ELSE IF Has(Head(edges), "tree_size") THEN edges
    ELSE SkipUntagged(Tail(edges))

(* the next position of the fallback loop that awaits fetchRoot, 0 if none *)
NextFetch(sizes, idx, roots) ==
    LET todo == { j \in (idx + 1)..Len(sizes) : NeedsFetch(sizes[j], roots) }
    IN  IF todo = {} THEN 0 ELSE CHOOSE j \in todo : \A k \in todo : j <= k

(* getArweavePublishedRoots up to its next await, or to its return *)
NextAwait(call) ==
    LET edges == SkipUntagged(call.edges)
    IN  IF call.pc # "root" /\ edges # <<>>
        THEN [call EXCEPT !.pc = "tx", !.edges = edges,
                          !.data = [url |-> Head(edges).id]]
        ELSE LET anchored == IF call.pc # "root"
                             THEN { Number(k) : k \in DOMAIN call.local }
                             ELSE call.anchored
                 j == NextFetch(call.sizes, call.idx, call.local)
             IN  IF j = 0
                 THEN [call EXCEPT !.pc = "done", !.edges = <<>>,
                                   !.anchored = anchored]
                 ELSE [call EXCEPT !.pc = "root", !.edges = <<>>, !.idx = j,
                                   !.anchored = anchored,
                                   !.called = @ \cup {call.sizes[j]},
                                   !.data = RootParams(call.sizes[j])]

(* a call ends without this.publishedRoots being assigned *)
End(s, ended) ==
    /\ last' = ended
    /\ inflight' = [inflight EXCEPT ![s] = Idle]
    /\ UNCHANGED <<publishedRoots, publishedRootsBy>>

(* this.publishedRoots = await ...; the verdicts; return response *)
Complete(s, call) ==
    /\ publishedRoots' = call.local
    /\ publishedRootsBy' = "call"
    /\ last' = Ended([call EXCEPT !.events =
                         VerifyConsistency(call.events, call.root,
                                           UnpublishedRoot, call.local)],
                     "returned", NoError, "this call", FALSE)
    /\ inflight' = [inflight EXCEPT ![s] = Idle]

Proceed(s, call) ==
    LET next == NextAwait(call)
    IN  IF next.pc = "done"
        THEN Complete(s, next)
        ELSE /\ inflight' = [inflight EXCEPT ![s] = next]
             /\ UNCHANGED <<publishedRoots, publishedRootsBy, last>>

Frame == UNCHANGED <<variant, prevUnpublishedRootHash, chain, latestRoot>>

(* search up to the POST of v1/search *)
SearchCall(s) ==
    /\ variant = "full"
    /\ AllIdle /\ FreeSlot(s)
    /\ \E queryOptions \in QueryOptions, options \in SearchOptions :
         inflight' = Begin(s, [op |-> "search", options |-> options,
                               data |-> SearchPayload("q", queryOptions, options),
                               posts |-> 1, pc |-> "post",
                               passed |-> queryOptions])
    /\ last' = NoCall
    /\ UNCHANGED <<publishedRoots, publishedRootsBy>>
    /\ Frame

(* the id argument of results(): absent, empty, or the id of a search *)
ResultIds == { Undef, "", "id1" }

(* results() that takes any id *)
MissingId_Never(id) == FALSE

(* if (!id) *)
MissingId(id) == id = Undef \/ id = ""

(* results without an id throws before anything is sent *)
ResultsMissingId ==
    /\ variant = "full"
    /\ AllIdle
    /\ \E options \in SearchOptions, id \in ResultIds :
         /\ MissingId(id)
         /\ last' = [op |-> "results", options |-> options, posts |-> 0, id |-> id,
                     kind |-> "rejected",
                     error |-> [name |-> "Error",
                                message |-> "Missing required id parameter"],
                     success |-> FALSE, received |-> <<>>, processed |-> <<>>,
                     root |-> NoRoot, resolver |-> FALSE, sizes |-> <<>>,
                     anchored |-> {}, called |-> {}, fetched |-> {}, resolved |-> {},
                     rootsUsed |-> "none", anchoringFailed |-> FALSE]
    /\ UNCHANGED <<publishedRoots, publishedRootsBy, inflight>>
    /\ Frame

(* results up to the POST of v1/results; limit = 20, offset = 0 by default *)
ResultsCall(s) ==
    /\ variant = "full"
    /\ AllIdle /\ FreeSlot(s)
    /\ \E options \in SearchOptions, id \in ResultIds :
         /\ ~MissingId(id)
         /\ inflight' = Begin(s, [op |-> "results", options |-> options,
                                  data |-> ResultsPayload(id, "20", "0"),
                                  posts |-> 1, pc |-> "post"])
    /\ last' = NoCall
    /\ UNCHANGED <<publishedRoots, publishedRootsBy>>
    /\ Frame

(* processSearchResponse that processes every response *)
Failed_Never(success) == FALSE

(* if (!response.success) *)
Failed(success) == ~success

(* processSearchResponse(response, options) up to its await, or to its end *)
processSearchResponse(s, call, success, events, root) ==
    LET options == call.options
        v == IF options.skipEventVerification
             THEN [error |-> NoError, events |-> events]
             ELSE verifyRecords(events)
        got == Received(call, success, events, v.events, root)
    IN  IF Failed(success)
        THEN End(s, Ended(Received(call, success, events, events, root),
                          "returned", NoError, "none", FALSE))
        ELSE IF v.error # NoError
        THEN End(s, Ended(got, "rejected", v.error, "none", FALSE))
        ELSE IF ~options.verifyConsistency
        THEN End(s, Ended(got, "returned", NoError, "none", FALSE))
        ELSE IF root = NoRoot
        THEN End(s, Ended([got EXCEPT !.events =
                              VerifyConsistency(v.events, root, UnpublishedRoot,
                                                publishedRoots)],
                          "returned", NoError,
                          IF publishedRootsBy = "constructor"
                          THEN "constructor" ELSE "earlier call", FALSE))
        ELSE LET sizes == TreeSizes(root, events)
             IN  /\ inflight' =
                      [inflight EXCEPT ![s] =
                         [got EXCEPT !.pc = "index", !.resolver = TRUE,
                                     !.sizes = sizes,
                                     !.data = IndexQuery(root["tree_name"], sizes)]]
                 /\ last' = NoCall
                 /\ UNCHANGED <<publishedRoots, publishedRootsBy>>

(* the POST of search or results resolves: processSearchResponse(response, options) *)
SearchResolve(s) ==
    /\ inflight[s].op \in SearchOps
    /\ inflight[s].pc = "post"
    /\ \E success \in BoolSet, events \in SeqsUpTo(SearchRecords, MaxRecords),
          root \in ResponseRoots :
         processSearchResponse(s, inflight[s], success, events, root)
    /\ Frame

(* The responses a caller hands to processSearchResponse itself: successful,
   with no record, one record or one record with a hash mismatch, without a
   root or with the root of size 3 *)
DirectEvents ==
    { <<>>,
      << [envelope |-> "e2", hash |-> "h2", leaf_index |-> "0",
          membership_proof |-> "p", consistency_proof |-> "valid"] >>,
      << [envelope |-> "e1", hash |-> "h2"] >> }

(* processSearchResponse is public: a caller hands it a response of its own,
   and no search or results request is sent *)
ProcessSearchResponse(s) ==
    /\ variant = "full"
    /\ AllIdle /\ FreeSlot(s)
    /\ \E options \in { o \in SearchOptions : ~o.skipEventVerification },
          success \in BoolSet, events \in DirectEvents,
          root \in { NoRoot, [tree_name |-> "t", root_hash |-> "p", size |-> 3] } :
         processSearchResponse(s, [op |-> "processSearchResponse",
                                   options |-> options, data |-> EmptyObj,
                                   posts |-> 0, pc |-> "post",
                                   passed |-> EmptyObj],
                               success, events, root)
    /\ Frame

(* the POST fails *)
SearchReject(s) ==
    /\ inflight[s].op \in SearchOps
    /\ inflight[s].pc = "post"
    /\ End(s, Ended(Received(inflight[s], FALSE, <<>>, <<>>, NoRoot),
                    "rejected", TransportError, "none", FALSE))
    /\ Frame

(* the anchoring index answers with edges *)
IndexResolve(s) ==
    /\ inflight[s].op \in ResponseOps
    /\ inflight[s].pc = "index"
    /\ \E edges \in EdgesFor(inflight[s].sizes) :
         Proceed(s, [inflight[s] EXCEPT !.edges = edges])
    /\ Frame

(* the POST of the anchoring index fails: nothing catches it *)
IndexReject(s) ==
    /\ inflight[s].op \in ResponseOps
    /\ inflight[s].pc = "index"
    /\ End(s, Ended(inflight[s], "rejected", TransportError, "none", TRUE))
    /\ Frame

(* the transaction is fetched: publishedRoots[treeSize] = {...JSON.parse, transactionId} *)
TxResolve(s) ==
    /\ inflight[s].op \in ResponseOps
    /\ inflight[s].pc = "tx"
    /\ LET call == inflight[s]
           edge == Head(call.edges)
           key == edge["tree_size"]
       IN  Proceed(s, [call EXCEPT
                         !.local = Assign(@, key :> AnchoredRoot(key, edge["id"])),
                         !.edges = Tail(@)])
    /\ Frame

(* the fetch of the transaction fails: nothing catches it *)
TxReject(s) ==
    /\ inflight[s].op \in ResponseOps
    /\ inflight[s].pc = "tx"
    /\ End(s, Ended(inflight[s], "rejected", TransportError, "none", TRUE))
    /\ Frame

(* fetchRoot returns the root of the live server *)
FetchRootResolve(s) ==
    /\ inflight[s].op \in ResponseOps
    /\ inflight[s].pc = "root"
    /\ LET call == inflight[s]
           treeSize == call.sizes[call.idx]
       IN  Proceed(s, [call EXCEPT
                         !.local = Assign(@, String(treeSize) :> ServerRoot(treeSize)),
                         !.fetched = @ \cup {treeSize}])
    /\ Frame

(* fetchRoot fails: .catch logs it, root is undefined *)
FetchRootReject(s) ==
    /\ inflight[s].op \in ResponseOps
    /\ inflight[s].pc = "root"
    /\ Proceed(s, inflight[s])
    /\ Frame

----------------------------------------------------------------------------
(* root(size), logStream(data), downloadResults(request) *)

PassOps == {"root", "logStream", "downloadResults"}

RootSizes == {0, 2}

RootCall(s) ==
    /\ variant = "full"
    /\ AllIdle /\ FreeSlot(s)
    /\ \E size \in RootSizes :
         inflight' = Begin(s, [op |-> "root", data |-> RootParams(size), posts |-> 1,
                               passed |-> String(size)])
    /\ last' = NoCall
    /\ UNCHANGED <<publishedRoots, publishedRootsBy>>
    /\ Frame

(* what the caller hands to logStream and to downloadResults *)
StreamPayloads == { [logs |-> "l1"], [logs |-> "l2", config_id |-> "cfg9"] }
DownloadRequests == { [result_id |-> "id1", format |-> "csv"], [result_id |-> "id2"] }

(* a submission that puts the configured config_id into the payload *)
PassThrough_Stamped(payload) == Put(payload, "config_id", ConfigId)

(* post(url, data): the payload is sent as given *)
PassThrough(payload) == payload

LogStreamCall(s) ==
    /\ variant = "full"
    /\ AllIdle /\ FreeSlot(s)
    /\ \E payload \in StreamPayloads :
         inflight' = Begin(s, [op |-> "logStream", data |-> PassThrough(payload),
                               posts |-> 1, passed |-> payload])
    /\ last' = NoCall
    /\ UNCHANGED <<publishedRoots, publishedRootsBy>>
    /\ Frame

DownloadResultsCall(s) ==
    /\ variant = "full"
    /\ AllIdle /\ FreeSlot(s)
    /\ \E request \in DownloadRequests :
         inflight' = Begin(s, [op |-> "downloadResults",
                               data |-> PassThrough(request),
                               posts |-> 1, passed |-> request])
    /\ last' = NoCall
    /\ UNCHANGED <<publishedRoots, publishedRootsBy>>
    /\ Frame

(* .then((result) => result.data) *)
PassResolve(s) ==
    /\ inflight[s].op \in PassOps
    /\ \E success \in BoolSet :
         last' = [op |-> inflight[s].op, data |-> inflight[s].data,
                  passed |-> inflight[s].passed,
                  posts |-> inflight[s].posts, kind |-> "returned",
                  error |-> NoError, response |-> [success |-> success]]
    /\ inflight' = [inflight EXCEPT ![s] = Idle]
    /\ UNCHANGED <<publishedRoots, publishedRootsBy>>
    /\ Frame

PassReject(s) ==
    /\ inflight[s].op \in PassOps
    /\ last' = [op |-> inflight[s].op, data |-> inflight[s].data,
                passed |-> inflight[s].passed,
                posts |-> inflight[s].posts, kind |-> "rejected",
                error |-> TransportError, response |-> EmptyObj]
    /\ inflight' = [inflight EXCEPT ![s] = Idle]
    /\ UNCHANGED <<publishedRoots, publishedRootsBy>>
    /\ Frame

NextSearch ==
    \/ \E s \in Slots : SearchCall(s)
    \/ ResultsMissingId
    \/ \E s \in Slots : ResultsCall(s)
    \/ \E s \in Slots : SearchResolve(s)
    \/ \E s \in Slots : ProcessSearchResponse(s)
    \/ \E s \in Slots : SearchReject(s)
    \/ \E s \in Slots : IndexResolve(s)
    \/ \E s \in Slots : IndexReject(s)
    \/ \E s \in Slots : TxResolve(s)
    \/ \E s \in Slots : TxReject(s)
    \/ \E s \in Slots : FetchRootResolve(s)
    \/ \E s \in Slots : FetchRootReject(s)
    \/ \E s \in Slots : RootCall(s)
    \/ \E s \in Slots : LogStreamCall(s)
    \/ \E s \in Slots : DownloadResultsCall(s)
    \/ \E s \in Slots : PassResolve(s)
    \/ \E s \in Slots : PassReject(s)

SpecSearch == Init /\ [][NextSearch]_vars

----------------------------------------------------------------------------
(* One caller that awaits every call before it makes the next: all nine
   operations of the service on one instance *)

NextService ==
    \/ \E s \in Slots : AllIdle /\ LogCall(s)
    \/ \E s \in Slots : LogResolve(s)
    \/ \E s \in Slots : LogReject(s)
    \/ AllIdle /\ LogBulkEmpty
    \/ \E s \in Slots : AllIdle /\ LogBulkCall(s)
    \/ \E s \in Slots : LogBulkResolve(s)
    \/ \E s \in Slots : LogBulkReject(s)
    \/ AllIdle /\ ProcessLogResponse
    \/ AllIdle /\ VerifyHash
    \/ NextSearch

SpecService == Init /\ [][NextService]_vars

----------------------------------------------------------------------------
(* Properties of log and logBulk *)

LogOps == {"log", "logBulk"}

(* the operations that process results of log and logBulk: the two calls, and
   processLogResponse called on a result directly *)
ResultOps == LogOps \cup {"processLogResponse"}

(* A step in which slot s starts a log() call with verify = true *)
StartsVerifiedLog(s) ==
    /\ inflight[s].op = "idle"
    /\ inflight'[s].op = "log"
    /\ inflight'[s].options.verify

(* The unpublished_root a finished log() call returned to its caller *)
ReturnedRoot(call) ==
    IF call.kind = "returned" THEN Get(call.processed[1], "unpublished_root")
    ELSE Undef

(* C1 as stated: in a sequence of log() calls with verify = true that do not
   overlap, each request carries as prev_root the unpublished_root returned to
   the call before it, and the first call of a fresh instance carries none. *)
C1_PrevRootOfPrecedingCall ==
    [][\A s \in Slots :
         (StartsVerifiedLog(s) /\ chain') =>
            IF last.op = "none"
            THEN ~Has(inflight'[s].data, "prev_root")
            ELSE Get(inflight'[s].data, "prev_root") = ReturnedRoot(last)]_vars

(* C1 amended: the request of a log() call with verify = true carries as
   prev_root the unpublished_root of the latest earlier result that was
   processed to the end and carried one, and no prev_root when there is none;
   this is the root returned to the call before it whenever that call returned
   one, and the first call of a fresh instance carries none. *)
C1_PrevRootChained ==
    [][\A s \in Slots :
         StartsVerifiedLog(s) =>
            /\ Get(inflight'[s].data, "prev_root") = latestRoot
            /\ (AllIdle /\ last.op = "none") => ~Has(inflight'[s].data, "prev_root")
            /\ (AllIdle /\ last.op = "log" /\ ReturnedRoot(last) # Undef) =>
                  Get(inflight'[s].data, "prev_root") = ReturnedRoot(last)]_vars

(* A log() call with verify = true that ran after another call had returned
   r2 is in flight with prev_root = r2 *)
C1_Witness ==
    \E s \in Slots :
        /\ inflight[s].op = "log"
        /\ inflight[s].options.verify
        /\ chain
        /\ Get(inflight[s].data, "prev_root") = "r2"

(* The roots of the results a finished call processed to the end *)
RootsProcessed(call) ==
    { call.received[i]["unpublished_root"] :
        i \in { j \in 1..call.done : Has(call.received[j], "unpublished_root") } }

(* C2: prevUnpublishedRootHash is the unpublished_root of the latest result
   processed that carried one; it changes only when a result that carries a
   root is processed (by log, by logBulk, or by processLogResponse called on
   a result directly), and then to a root of that step: a result without a
   root neither clears it nor brings back an earlier value. *)
C2_PrevRootIsLatest ==
    /\ [](prevUnpublishedRootHash = latestRoot)
    /\ [][prevUnpublishedRootHash' # prevUnpublishedRootHash =>
            /\ last'.op \in ResultOps
            /\ prevUnpublishedRootHash' \in RootsProcessed(last')]_vars

(* A result without a root was processed to the end while the field held r1 *)
C2_Witness ==
    /\ last.op \in LogOps
    /\ last.kind = "returned"
    /\ last.done >= 1
    /\ ~Has(last.received[last.done], "unpublished_root")
    /\ prevUnpublishedRootHash = "r1"

(* envelope and hash are both present and the hash is not that of the envelope *)
HashMismatch(result) ==
    /\ Has(result, "envelope")
    /\ Has(result, "hash")
    /\ ~verifyLogHash(result["envelope"], result["hash"])

(* error carries the hash and the serialized envelope of result *)
CarriesMismatch(error, result) ==
    /\ error.name = "InternalServerErrorException"
    /\ error.message[2] = result["hash"]
    /\ error.description = JSONstringify(result["envelope"])

(* C3: when a result of log() or logBulk() has a hash mismatch and
   skipEventVerification is not set, the operation ends with an error that
   reaches its caller (a rejection, or the caller's callback) and that carries
   the mismatched hash and the serialized envelope. *)
C3_HashMismatchFails ==
    (/\ last.op \in LogOps
     /\ ~last.options.skipEventVerification
     /\ \E i \in 1..Len(last.received) : HashMismatch(last.received[i]))
    => /\ last.kind \in {"rejected", "caught"}
       /\ \E i \in 1..Len(last.received) :
             HashMismatch(last.received[i]) /\ CarriesMismatch(last.error, last.received[i])

(* C5: the request of logBulk() carries no prev_root, and no result of its
   response gets membership_verification or consistency_verification, whatever
   options.verify the caller passed. *)
C5_BulkNeverVerifies ==
    /\ \A s \in Slots :
          inflight[s].op = "logBulk" =>
             /\ ~Has(inflight[s].data, "prev_root")
             /\ \A i \in 1..Len(inflight[s].data["events"]) :
                   ~Has(inflight[s].data["events"][i], "prev_root")
    /\ last.op = "logBulk" =>
          /\ ~Has(last.data, "prev_root")
          /\ \A i \in 1..Len(last.processed) :
                DOMAIN last.processed[i] \cap VerdictKeys = {}

(* logBulk() was called with verify = true, and two results that carry roots
   and valid proofs were processed to the end *)
C5_Witness ==
    /\ last.op = "logBulk"
    /\ last.passed.verify
    /\ last.kind = "returned"
    /\ last.done = 2
    /\ \A i \in 1..2 :
          /\ Has(last.received[i], "unpublished_root")
          /\ Has(last.received[i], "membership_proof")
          /\ Has(last.processed[i], "signature_verification")

----------------------------------------------------------------------------
(* Properties of search and results *)

(* a search or results call whose response was processed has ended *)
SearchEnded == last.op \in SearchOps /\ last.posts = 1 /\ last.error # TransportError

MismatchReceived == \E i \in 1..Len(last.received) : HashMismatch(last.received[i])

(* C4 as stated: in search() and results(), when skipEventVerification is not
   set, a hash mismatch on any record of the response makes the operation fail
   with the hash error; no response is returned. *)
C4_SearchMismatchFails ==
    (SearchEnded /\ ~last.options.skipEventVerification /\ MismatchReceived)
    => /\ last.kind = "rejected"
       /\ \E i \in 1..Len(last.received) :
             HashMismatch(last.received[i]) /\ CarriesMismatch(last.error, last.received[i])

(* C4 amended: in search() and results(), when skipEventVerification is not
   set and the response reports success, a hash mismatch on any record of the
   response makes the operation fail with the hash error and no response is
   returned; a response that does not report success is returned as it came,
   its records unverified. *)
C4_SuccessfulSearchMismatchFails ==
    (SearchEnded /\ ~last.options.skipEventVerification /\ MismatchReceived)
    => IF last.success
       THEN /\ last.kind = "rejected"
            /\ \E i \in 1..Len(last.received) :
                  HashMismatch(last.received[i])
                  /\ CarriesMismatch(last.error, last.received[i])
       ELSE /\ last.kind = "returned"
            /\ last.processed = last.received

(* A successful response of two records, the second with a hash mismatch, was
   processed without skipEventVerification *)
C4_Witness ==
    /\ SearchEnded
    /\ last.success
    /\ ~last.options.skipEventVerification
    /\ Len(last.received) = 2
    /\ ~HashMismatch(last.received[1])
    /\ HashMismatch(last.received[2])
    /\ last.kind = "rejected"

(* the resolver was called and neither the index nor a transaction failed *)
Resolved == last.op \in SearchOps /\ last.resolver /\ ~last.anchoringFailed

(* C6 as stated: the resolver invokes the live-root callback for every
   requested size not resolved from anchoring and for no other size; the
   result holds the anchored sizes and exactly the sizes whose callback
   succeeded; no error is thrown when a callback fails. *)
C6_FallbackForEveryMissingSize ==
    Resolved =>
       /\ last.called = Range(last.sizes) \ last.anchored
       /\ last.resolved = last.anchored \cup last.fetched
       /\ last.kind = "returned"

(* C6 amended: the resolver invokes the live-root callback for every requested
   size other than 0 that was not resolved from anchoring, and for no other
   size (size 0 is never asked of the live server); the result holds the
   anchored sizes and exactly the sizes whose callback returned a root; no
   error is thrown when a callback fails. *)
C6_FallbackForEveryMissingNonzeroSize ==
    Resolved =>
       /\ last.called = { t \in Range(last.sizes) \ last.anchored : t # 0 }
       /\ last.fetched \subseteq last.called
       /\ last.resolved = last.anchored \cup last.fetched
       /\ last.kind = "returned"

(* Of three requested sizes one was anchored, one came from the callback and
   for one the callback failed *)
C6_Witness ==
    /\ Resolved
    /\ last.kind = "returned"
    /\ Cardinality(Range(last.sizes)) = 3
    /\ last.anchored # {}
    /\ last.fetched # {}
    /\ last.called \ last.fetched # {}

(* C7: when the request to the anchoring index or the fetch of an anchored
   transaction fails, the error does not reach the caller of search() or
   results(): the call returns its response. *)
C7_AnchoringFailureNotPropagated ==
    (last.op \in SearchOps /\ last.anchoringFailed) => last.kind = "returned"

(* C8: in a search() or results() call processed with verifyConsistency, the
   mapping given to verifyRecordConsistencyProof was resolved during that
   call, never by an earlier call. *)
C8_RootsResolvedInSameCall ==
    (/\ SearchEnded
     /\ last.options.verifyConsistency
     /\ last.kind = "returned"
     /\ last.success
     /\ last.received # <<>>)
    => last.rootsUsed = "this call"

(* the size of the root of the response, 0 when it has none *)
RootSize(root) == IF Has(root, "size") THEN root["size"] ELSE 0

LeafIndexes(events) ==
    { Number(events[i]["leaf_index"]) :
        i \in { j \in 1..Len(events) : Has(events[j], "leaf_index") } }

(* C9 as stated: the tree sizes handed to the resolver are the size of the
   root of the response together with i and i + 1 for the leaf_index i of
   every record. *)
C9_SizesBeforeAndAfter ==
    (last.op \in SearchOps /\ last.resolver) =>
       Range(last.sizes) =
          {RootSize(last.root)}
          \cup LeafIndexes(last.received)
          \cup { i + 1 : i \in LeafIndexes(last.received) }

(* C9 amended: when the response carries a root, the tree sizes handed to the
   resolver are the size of that root (0 when it has none) together with
   i + 1 for the leaf_index i of every record and i itself only when i > 0. *)
C9_SizesAfterAndPositiveBefore ==
    (last.op \in SearchOps /\ last.resolver) =>
       Range(last.sizes) =
          {RootSize(last.root)}
          \cup { i \in LeafIndexes(last.received) : i > 0 }
          \cup { i + 1 : i \in LeafIndexes(last.received) }

(* The resolver was called for a response with a root of size 3 and records
   of leaf_index 0 and 1 *)
C9_Witness ==
    /\ last.op \in SearchOps
    /\ last.resolver
    /\ Has(last.root, "size")
    /\ LeafIndexes(last.received) = {0, 1}
    /\ Range(last.sizes) = {1, 2, 3}

AllOps == LogOps \cup SearchOps \cup PassOps

(* C10: when the POST of log, logBulk, search, results, root, logStream or
   downloadResults fails, the operation rejects to its caller with that
   failure and has sent one POST. *)
C10_PostFailureRejects ==
    (/\ last.op \in AllOps
     /\ last.error = TransportError
     /\ last.op \in SearchOps => ~last.anchoringFailed)
    => /\ last.kind = "rejected"
       /\ last.posts = 1

----------------------------------------------------------------------------
(* Properties of verdicts *)

(* no result of the call that ended is stopped by the hash check *)
NoHashFailure ==
    \/ last.options.skipEventVerification
    \/ \A i \in 1..Len(last.received) : ~HashMismatch(last.received[i])

(* the root a record's membership is checked against *)
RootAgainst(record, root) == IF Published(record) THEN root ELSE UnpublishedRoot

(* C11: a negative verdict of signature, membership or consistency
   verification never makes log, logBulk, search or results fail: a call
   fails only for a failed request, a hash mismatch or a missing id; otherwise
   it returns its response with every negative verdict attached, and log and
   logBulk leave the root of the result in prevUnpublishedRootHash. *)
C11_NegativeVerdictNotFatal ==
    /\ (last.op \in LogOps \cup SearchOps /\ last.kind # "returned") =>
          \/ last.error = TransportError
          \/ last.error.name = "Error" /\ last.posts = 0
          \/ /\ ~last.options.skipEventVerification
             /\ \E i \in 1..Len(last.received) :
                   HashMismatch(last.received[i])
                   /\ CarriesMismatch(last.error, last.received[i])
    /\ (last.op \in LogOps /\ last.posts = 1 /\ last.error # TransportError
        /\ NoHashFailure) =>
          /\ last.kind = "returned"
          /\ Len(last.processed) = Len(last.received)
          /\ prevUnpublishedRootHash =
                RootOfLatest(last.received, Len(last.received), prevUnpublishedRootHash)
          /\ \A i \in 1..Len(last.received) :
                LET r == last.received[i]
                    out == last.processed[i]
                IN  /\ (~last.options.skipEventVerification
                        /\ Get(r, "envelope") = "e2") =>
                           Get(out, "signature_verification") = "false"
                    /\ (last.options.verify /\ Has(r, "unpublished_root")
                        /\ Get(r, "membership_proof") = "invalid") =>
                           Get(out, "membership_verification") = "false"
                    /\ (last.options.verify /\ Has(r, "unpublished_root")
                        /\ last.consPrev # Undef
                        /\ Get(r, "consistency_proof") = "invalid") =>
                           Get(out, "consistency_verification") = "false"
                    /\ Has(r, "unpublished_root") =>
                           Get(out, "unpublished_root") = r["unpublished_root"]
    /\ (SearchEnded /\ last.success /\ NoHashFailure /\ ~last.anchoringFailed) =>
          /\ last.kind = "returned"
          /\ Len(last.processed) = Len(last.received)
          /\ \A i \in 1..Len(last.received) :
                LET r == last.received[i]
                    out == last.processed[i]
                IN  /\ (~last.options.skipEventVerification
                        /\ Get(r, "envelope") = "e2") =>
                           Get(out, "signature_verification") = "false"
                    /\ (last.options.verifyConsistency
                        /\ Has(r, "membership_proof")
                        /\ RootAgainst(r, last.root) # NoRoot
                        /\ RootAgainst(r, last.root)["root_hash"] # r["membership_proof"]) =>
                           Get(out, "membership_verification") = "false"

(* log() returned a result whose consistency proof is invalid: the verdict is
   attached and the field holds the root of that result *)
C11_Witness ==
    /\ last.op = "log"
    /\ last.kind = "returned"
    /\ last.consPrev = "r1"
    /\ Get(last.processed[1], "consistency_verification") = "false"
    /\ Get(last.processed[1], "unpublished_root") = "r2"
    /\ prevUnpublishedRootHash = "r2"

(* a log or logBulk call returned; its results were processed to the end *)
LogReturned == last.op \in LogOps /\ last.posts = 1 /\ last.kind = "returned"

(* C12 as stated: on a processed log result membership_verification and
   consistency_verification are present exactly when options.verify was set,
   and signature_verification exactly when skipEventVerification was not set
   and the result carries an envelope.  options is what the caller passed; a
   field is present when processLogResponse assigned it. *)
C12_VerdictsPresentWhenRequested ==
    last.op \in ResultOps =>
       \A i \in 1..last.done :
          LET r == last.received[i]
              assigned == last.assigned[i]
          IN  /\ "membership_verification" \in assigned <=> last.passed.verify
              /\ "consistency_verification" \in assigned <=> last.passed.verify
              /\ "signature_verification" \in assigned <=>
                    (~last.passed.skipEventVerification /\ Has(r, "envelope"))

(* C12 amended: on a log result that was processed to the end,
   membership_verification and consistency_verification are assigned exactly
   when options.verify is set on the options object when the result is
   processed, and signature_verification exactly when skipEventVerification
   is not set, with or without an envelope; a field that was not assigned is
   absent. *)
C12_VerdictsAssignedAsProcessed ==
    last.op \in ResultOps =>
       \A i \in 1..last.done :
          LET out == last.processed[i]
              assigned == last.assigned[i]
          IN  /\ "membership_verification" \in assigned <=> last.options.verify
              /\ "consistency_verification" \in assigned <=> last.options.verify
              /\ "signature_verification" \in assigned <=>
                    ~last.options.skipEventVerification
              /\ \A k \in VerdictKeys \cup {"signature_verification"} :
                    k \notin assigned => ~Has(out, k)

(* log() was called with verify = true and its options object was given to
   logBulk() while it waited: its result, which carries a root and both
   proofs, was processed with the signature verdict alone *)
C12_Witness ==
    /\ last.op = "log"
    /\ last.kind = "returned"
    /\ last.passed.verify
    /\ ~last.options.verify
    /\ Has(last.received[1], "unpublished_root")
    /\ Has(last.received[1], "membership_proof")
    /\ Has(last.received[1], "consistency_proof")
    /\ last.assigned[1] = {"signature_verification"}
    /\ DOMAIN last.processed[1] \cap VerdictKeys = {}

----------------------------------------------------------------------------
(* Properties of calls that need no request *)

(* C13: logBulk() with an empty list of events sends no request (no call is
   pending with an empty list, and none ended having sent one) and returns
   { result: { results: [] } }. *)
C13_EmptyBulkSendsNothing ==
    /\ \A s \in Slots :
          inflight[s].op = "logBulk" => inflight[s].data["events"] # <<>>
    /\ (last.op = "logBulk" /\ last.posts = 1) => last.data["events"] # <<>>
    /\ (last.op = "logBulk" /\ last.posts = 0) =>
          /\ last.kind = "returned"
          /\ last.processed = <<>>

(* C14: results() with an absent or empty id fails with an error before any
   request is sent and changes no state of the service: no results() call is
   pending with such an id, and the step in which the call fails leaves the
   fields of the service and the pending calls as they were. *)
C14_MissingIdFailsFast ==
    /\ [](\A s \in Slots :
            (inflight[s].op = "results" /\ inflight[s].pc = "post") =>
               (inflight[s].data.id # Undef /\ inflight[s].data.id # ""))
    /\ [][(last'.op = "results" /\ last' # last /\ last'.posts = 0) =>
            /\ last'.id \in {Undef, ""}
            /\ last'.kind = "rejected"
            /\ last'.error.name = "Error"
            /\ UNCHANGED <<prevUnpublishedRootHash, publishedRoots, inflight>>]_vars

(* results("") has failed without a request *)
C14_Witness ==
    /\ last.op = "results"
    /\ last.posts = 0
    /\ last.id = ""
    /\ last.kind = "rejected"

----------------------------------------------------------------------------
(* Properties of processSearchResponse *)

(* a response that reports success was processed with verifyConsistency and
   returned *)
ConsistencyReturned ==
    /\ SearchEnded
    /\ last.success
    /\ last.options.verifyConsistency
    /\ last.kind = "returned"

(* C15: for each record of a response processed with verifyConsistency,
   membership verification is run against the root of the response when
   record.published is true and against its unpublished root otherwise, and
   consistency verification against the mapping resolved for the call. *)
C15_RecordsVerifiedAgainstTheirRoots ==
    ConsistencyReturned =>
       /\ last.received # <<>> => last.rootsUsed = "this call"
       /\ \A i \in 1..Len(last.received) :
             LET r == last.received[i]
                 out == last.processed[i]
             IN  /\ Get(out, "membership_verification") =
                       verifyRecordMembershipProof(RootAgainst(r, last.root), r)
                 /\ Get(out, "consistency_verification") =
                       verifyRecordConsistencyProof(publishedRoots, r)

(* C16: a response that does not report success is returned as it came: no
   record gets a verdict, no hash error is raised, the resolver is not called
   and no root is asked for, and the step leaves the fields of the service as
   they were. *)
C16_FailureReturnedUnchanged ==
    /\ []((SearchEnded /\ ~last.success) =>
            /\ last.kind = "returned"
            /\ last.error = NoError
            /\ last.processed = last.received
            /\ ~last.resolver
            /\ last.called = {}
            /\ last.rootsUsed = "none")
    /\ [][(last'.op \in SearchOps /\ last' # last /\ last'.posts = 1
           /\ last'.error # TransportError /\ ~last'.success) =>
            UNCHANGED <<prevUnpublishedRootHash, publishedRoots, publishedRootsBy>>]_vars

(* A response without success whose record has a hash mismatch and which
   carries a root was returned to a call with verifyConsistency *)
C16_Witness ==
    /\ SearchEnded
    /\ ~last.success
    /\ ~last.options.skipEventVerification
    /\ last.options.verifyConsistency
    /\ last.root # NoRoot
    /\ MismatchReceived
    /\ last.kind = "returned"

(* C17: the payload search() submits is the query and limit = 20,
   order = desc, order_by = received_at, each key of queryOptions taking the
   place of its default; with verifyConsistency it has verbose = true whatever
   queryOptions says. *)
C17_SearchPayloadDefaults ==
    \A s \in Slots :
       (inflight[s].op = "search" /\ inflight[s].pc = "post") =>
          LET d == inflight[s].data
              q == inflight[s].passed
          IN  /\ d["query"] = "q"
              /\ d["limit"] = IF Has(q, "limit") THEN q["limit"] ELSE "20"
              /\ d["order"] = IF Has(q, "order") THEN q["order"] ELSE "desc"
              /\ d["order_by"] = IF Has(q, "order_by") THEN q["order_by"]
                                 ELSE "received_at"
              /\ \A k \in DOMAIN q \ {"verbose"} : d[k] = q[k]
              /\ IF inflight[s].options.verifyConsistency
                 THEN Get(d, "verbose") = "true"
                 ELSE Get(d, "verbose") = Get(q, "verbose")

(* search() with verifyConsistency and queryOptions { limit: 5, verbose: false }
   has sent limit 5 and verbose true *)
C17_Witness ==
    \E s \in Slots :
       /\ inflight[s].op = "search"
       /\ inflight[s].pc = "post"
       /\ inflight[s].options.verifyConsistency
       /\ Get(inflight[s].passed, "verbose") = "false"
       /\ inflight[s].data["limit"] = "5"
       /\ inflight[s].data["order"] = "desc"
       /\ inflight[s].data["verbose"] = "true"

----------------------------------------------------------------------------
(* Properties of the events submitted *)

(* the events of the request of a log or logBulk call *)
EventsSubmitted(call) ==
    IF call.op = "log" THEN { call.data["event"] }
    ELSE { call.data["events"][i]["event"] : i \in 1..Len(call.data["events"]) }

(* C18: in every event log() or logBulk() submits, actor, tenant_id, source
   and service_name are the values of the request context and the
   configuration, whatever the caller put in those fields. *)
C18_ContextFieldsStamped ==
    \A s \in Slots :
       inflight[s].op \in LogOps =>
          \A e \in EventsSubmitted(inflight[s]) :
             /\ Get(e, "actor") = RequestUserId
             /\ Get(e, "tenant_id") = RequestOrganizationId
             /\ Get(e, "source") = ClientSource
             /\ Get(e, "service_name") = ServiceName

----------------------------------------------------------------------------
(* Properties of verifyHash *)

(* C19: verifyHash raises exactly when envelope and hash are both present and
   the hash recomputed from the envelope differs from the one supplied; with
   either absent it does nothing: log() goes on as if the check were skipped,
   and returns; verifyHash called directly raises in the same case only, and
   changes no field of the instance and no call that waits, whatever it is
   given. *)
C19_HashCheckRaisesOnMismatchOnly ==
    /\ [](/\ \A envelope \in Envelopes \cup {Undef}, hash \in Hashes \cup {Undef} :
                (verifyHash(envelope, hash) # NoError) <=>
                   (envelope # Undef /\ hash # Undef /\ HashOf(envelope) # hash)
          /\ (last.op = "log" /\ last.posts = 1 /\ last.error # TransportError
              /\ ~last.options.skipEventVerification) =>
                LET r == last.received[1]
                IN  /\ (last.error # NoError) <=>
                          (/\ Has(r, "envelope") /\ Has(r, "hash")
                           /\ HashOf(r["envelope"]) # r["hash"])
                    /\ last.error # NoError => CarriesMismatch(last.error, r)
                    /\ (~Has(r, "envelope") \/ ~Has(r, "hash")) =>
                          /\ last.kind = "returned"
                          /\ last.done = 1
                          /\ Get(last.processed[1], "hash") = Get(r, "hash")
                          /\ Get(last.processed[1], "envelope") = Get(r, "envelope")
          /\ last.op = "verifyHash" =>
                LET r == last.received[1]
                IN  /\ (last.kind = "raised") <=>
                          (/\ Has(r, "envelope") /\ Has(r, "hash")
                           /\ HashOf(r["envelope"]) # r["hash"])
                    /\ last.kind = "raised" => CarriesMismatch(last.error, r)
                    /\ last.processed = last.received)
    /\ [][(last' # last /\ last'.op = "verifyHash") =>
            UNCHANGED <<prevUnpublishedRootHash, publishedRoots, inflight>>]_vars

(* log() without skipEventVerification returned a result that has a hash and
   no envelope *)
C19_Witness ==
    /\ last.op = "log"
    /\ ~last.options.skipEventVerification
    /\ last.kind = "returned"
    /\ ~Has(last.received[1], "envelope")
    /\ Has(last.received[1], "hash")

----------------------------------------------------------------------------
(* Properties of the cached root across operations *)

StreamOps == {"logStream", "downloadResults"}

(* C21: prevUnpublishedRootHash changes only in the step that processes the
   results of a log() or logBulk() call, or a log result handed to
   processLogResponse directly, and then to a root of those results;
   search, results, root, logStream and downloadResults leave it as it is;
   logStream and downloadResults send the payload of the caller as given and
   return the answer of the endpoint with no verdict put on it. *)
C21_OnlyLogResultsMoveTheRoot ==
    /\ [][prevUnpublishedRootHash' # prevUnpublishedRootHash =>
            /\ last'.op \in ResultOps
            /\ last'.op \in LogOps => last'.posts = 1
            /\ prevUnpublishedRootHash' \in RootsProcessed(last')]_vars
    /\ [][(last' # last /\ last'.op \in ResponseOps \cup PassOps) =>
            prevUnpublishedRootHash' = prevUnpublishedRootHash]_vars
    /\ [](\A s \in Slots :
            inflight[s].op \in StreamOps => inflight[s].data = inflight[s].passed)
    /\ [](last.op \in StreamOps =>
            /\ last.data = last.passed
            /\ last.kind = "returned" =>
                  DOMAIN last.response \cap (VerdictKeys \cup {"signature_verification"}) = {})

(* A search with verifyConsistency that called the resolver has returned
   while the field holds r2 *)
C21_Witness ==
    /\ last.op = "search"
    /\ last.kind = "returned"
    /\ last.resolver
    /\ prevUnpublishedRootHash = "r2"

(* C22: when a log result is processed with verify set, by log() or by
   processLogResponse called directly, consistency verification gets as
   previous root the value the field had before this result, and the field
   takes the root of the result only in the step in which hash, signature,
   membership and consistency verification have run: the verdicts are those
   computed with the old value. *)
C22_VerifiedAgainstOldRoot ==
    [][(last' # last /\ last'.op \in {"log", "processLogResponse"}
        /\ last'.options.verify /\ last'.kind = "returned") =>
          LET r == last'.received[1]
              out == last'.processed[1]
              root == Get(r, "unpublished_root")
          IN  /\ last'.consPrev = prevUnpublishedRootHash
              /\ Get(out, "consistency_verification") =
                    verifyLogConsistencyProof(r, root, prevUnpublishedRootHash)
              /\ Get(out, "membership_verification") =
                    verifyLogMembershipProof(r, root)
              /\ prevUnpublishedRootHash' =
                    IF root # Undef THEN root ELSE prevUnpublishedRootHash]_vars

(* log() with verify returned r2 with a valid consistency proof checked
   against r1, and the field holds r2 *)
C22_Witness ==
    /\ last.op = "log"
    /\ last.options.verify
    /\ last.kind = "returned"
    /\ last.consPrev = "r1"
    /\ Get(last.received[1], "unpublished_root") = "r2"
    /\ Get(last.processed[1], "consistency_verification") = "true"
    /\ prevUnpublishedRootHash = "r2"

----------------------------------------------------------------------------
(* Signed events *)

(* log(event, options) of a caller that awaits each call *)
SignedLogCall(s) ==
    /\ AllIdle
    /\ LogCallWith(s, SignedOptions)

NextSign ==
    \/ \E s \in Slots : SignedLogCall(s)
    \/ \E s \in Slots : LogResolve(s)
    \/ \E s \in Slots : LogReject(s)

SpecSign == Init /\ [][NextSign]_vars

(* the request of call carries signature and public_key exactly when the
   options passed have a signer, and then those of that signer *)
SignedBySigner(call) ==
    LET options == call.passed
        data == call.data
    IN  /\ Has(data, "signature") <=> Has(options, "signer")
        /\ Has(data, "public_key") <=> Has(options, "signer")
        /\ Has(options, "signer") =>
              LET signer == options["signer"]
                  event == data["event"]
                  given == IF Has(options, "publicKeyInfo")
                           THEN options["publicKeyInfo"] ELSE EmptyObj
                  info == data["public_key"][2]
              IN  /\ event["actor"] = RequestUserId
                  /\ event["tenant_id"] = RequestOrganizationId
                  /\ data["signature"] = sign(signer, canonicalizeEvent(Entries(event, {})))
                  /\ data["public_key"] = JSONstringify(info)
                  /\ DOMAIN info = DOMAIN given \cup {"key", "algorithm"}
                  /\ info["key"] = getPublicKey(signer)
                  /\ info["algorithm"] = getAlgorithm(signer)
                  /\ \A k \in DOMAIN given \ {"key", "algorithm"} : info[k] = given[k]

(* C23: the payload of log() carries signature and public_key exactly when
   options.signer is given; the signature is the signer's over the canonical
   form of the event with the context's fields, and the public-key envelope
   holds the signer's key and algorithm, whatever options.publicKeyInfo says
   for those two, next to the other entries of options.publicKeyInfo. *)
C23_SignedExactlyWithSigner ==
    /\ \A s \in Slots : inflight[s].op = "log" => SignedBySigner(inflight[s])
    /\ last.op = "log" => SignedBySigner(last)

(* a signed log() whose publicKeyInfo named another key and an owner was
   posted with the key of the signer and the owner kept *)
C23_Witness ==
    \E s \in Slots :
        /\ inflight[s].op = "log"
        /\ Has(inflight[s].passed, "signer")
        /\ Has(inflight[s].passed, "publicKeyInfo")
        /\ inflight[s].passed["publicKeyInfo"] = [algorithm |-> "a9", owner |-> "bob"]
        /\ inflight[s].passed["signer"].algorithm = "RSA"
        /\ inflight[s].data["public_key"][2]["algorithm"] = "RSA"
        /\ inflight[s].data["public_key"][2]["owner"] = "bob"

----------------------------------------------------------------------------
(* Overlapping log calls *)

(* C24: for log() with verify, the previous root given to consistency
   verification is the prev_root the call submitted (none submitted: none
   given), provided no result of another log() or logBulk() was processed
   between the building of its request and the processing of its response. *)
C24_VerifiedAgainstSubmittedRoot ==
    (/\ last.op = "log"
     /\ last.options.verify
     /\ last.kind = "returned"
     /\ ~last.overtaken)
    => last.consPrev = Get(last.data, "prev_root")

(* two log calls overlapped: the one that returned had submitted prev_root r1
   and its proof was checked against r2, the root of the other call's result *)
C24_Witness ==
    /\ last.op = "log"
    /\ last.options.verify
    /\ last.kind = "returned"
    /\ last.overtaken
    /\ Get(last.data, "prev_root") = "r1"
    /\ last.consPrev = "r2"

----------------------------------------------------------------------------
(* The options object of the caller *)

(* call.passed is the object as the caller wrote it, call.options the same
   object as the call left it *)
BulkLeavesOptions(call) ==
    IF call.posts = 1 /\ Len(call.data["events"]) > 0
    THEN call.options = [call.passed EXCEPT !.verify = FALSE]
    ELSE call.options = call.passed

(* C25: logBulk() with events sets verify to false in the options object of
   the caller and changes nothing else in it; log() given an object in that
   state sends no prev_root and puts no membership or consistency verdict on
   its result; logBulk() with no events leaves the object as it was. *)
C25_BulkClearsVerifyOfCaller ==
    /\ \A s \in Slots :
          /\ inflight[s].op = "logBulk" => BulkLeavesOptions(inflight[s])
          /\ (inflight[s].op = "log" /\ ~inflight[s].passed.verify) =>
                ~Has(inflight[s].data, "prev_root")
    /\ last.op = "logBulk" => BulkLeavesOptions(last)
    /\ (last.op = "log" /\ ~last.passed.verify /\ last.kind = "returned") =>
          /\ ~Has(last.data, "prev_root")
          /\ DOMAIN last.processed[1] \cap VerdictKeys = {}

----------------------------------------------------------------------------
(* A result whose hash check raises *)

HashCheckRaised(call) ==
    /\ call.op \in ResultOps
    /\ call.error.name = "InternalServerErrorException"

(* C26: when the hash check of a result of log() or logBulk(), or of a
   result handed to processLogResponse directly, raises, that result is left
   as it was received (no verdict on it) and does not change
   prevUnpublishedRootHash; the results of logBulk before it were processed
   and have updated the field, those after it are left as received. *)
C26_RaisingResultLeavesRoot ==
    [][(last' # last /\ HashCheckRaised(last')) =>
          LET received == last'.received
              processed == last'.processed
              k == last'.done + 1
          IN  /\ k <= Len(received)
              /\ HashMismatch(received[k])
              /\ \A i \in k..Len(received) :
                    processed[i] = received[i] /\ last'.assigned[i] = {}
              /\ \A i \in 1..(k - 1) :
                    /\ Get(processed[i], "signature_verification") =
                          IF last'.options.skipEventVerification THEN Undef
                          ELSE verifySignature(Get(received[i], "envelope"))
                    /\ ~HashMismatch(received[i]) \/ last'.options.skipEventVerification
              /\ prevUnpublishedRootHash' =
                    RootOfLatest(received, k - 1, prevUnpublishedRootHash)]_vars

(* logBulk() got r1 in a first result and a hash mismatch in a second result
   that carries r2: the field holds r1 *)
C26_Witness ==
    /\ last.op = "logBulk"
    /\ HashCheckRaised(last)
    /\ last.done = 1
    /\ Get(last.received[1], "unpublished_root") = "r1"
    /\ Get(last.received[2], "unpublished_root") = "r2"
    /\ ~Has(last.processed[2], "signature_verification")
    /\ prevUnpublishedRootHash = "r1"

----------------------------------------------------------------------------
(* Hash verification and the anchoring requests of search() and results() *)

AnchoringSteps == {"index", "tx", "root"}

(* C27: in search() and results() without skipEventVerification, a request
   to the anchoring index, to an anchored transaction or to the root endpoint
   is pending only after every record of the response has passed its hash
   check and has its signature verdict; a call that met a hash mismatch ends
   without having issued any of those requests and without a change to
   publishedRoots. *)
C27_HashesBeforeAnchoring ==
    /\ [](\A s \in Slots :
            (/\ inflight[s].op \in SearchOps
             /\ inflight[s].pc \in AnchoringSteps
             /\ ~inflight[s].options.skipEventVerification) =>
               \A i \in 1..Len(inflight[s].received) :
                  /\ ~HashMismatch(inflight[s].received[i])
                  /\ Get(inflight[s].events[i], "signature_verification") =
                        verifySignature(Get(inflight[s].received[i], "envelope")))
    /\ []((SearchEnded /\ ~last.options.skipEventVerification /\ MismatchReceived) =>
            /\ ~last.resolver
            /\ last.anchored = {}
            /\ last.called = {}
            /\ last.fetched = {}
            /\ last.rootsUsed = "none")
    /\ [][(last' # last /\ last'.op \in SearchOps /\ last'.posts = 1
           /\ last'.error # TransportError
           /\ ~last'.options.skipEventVerification
           /\ \E i \in 1..Len(last'.received) : HashMismatch(last'.received[i])) =>
            (\E s \in Slots : /\ inflight[s].op \in SearchOps
                              /\ inflight[s].pc = "post"
                              /\ inflight'[s] = Idle)
            /\ UNCHANGED <<publishedRoots, publishedRootsBy>>]_vars

(* a successful response with a root to a search with verifyConsistency: its
   second record has a hash mismatch and the call was rejected *)
C27_Witness ==
    /\ SearchEnded
    /\ last.success
    /\ last.options.verifyConsistency
    /\ ~last.options.skipEventVerification
    /\ last.root # NoRoot
    /\ Len(last.received) = 2
    /\ HashMismatch(last.received[2])
    /\ last.kind = "rejected"
    /\ ~last.resolver

----------------------------------------------------------------------------
(* The repository wrappers: getCustomRepository and DatabasesService.       *)
(* The calls are synchronous hand-overs to the TypeORM repository, which is *)
(* not part of the sources: its methods are modelled as returning a value   *)
(* that records what they were given.                                       *)

MaxEntities == 2      \* entities of an array given to a wrapper

(* the two getCustomRepository of part_004, the one of part_005 and the
   DatabasesService class *)
Wrappers == {"part_004", "part_004_second", "part_005", "DatabasesService"}

(* the caller's data: without stamps, and with stamps of its own *)
Entities ==
    { [name |-> "a"], [name |-> "a", createdBy |-> "u9"],
      [name |-> "b", createdBy |-> "u9", updatedBy |-> "u9"] }
EntityArrays == { a \in SeqsUpTo(Entities, MaxEntities) : a # <<>> }

(* criteria of update: an id, or an array of ids *)
Ids == {1, 2}
IdArrays == { <<1>>, <<1, 2>> }
ConflictPaths == <<"id">>

(* { ...x } of an array: its elements under their indexes; of a number: {} *)
SpreadArray(a) ==
    [k \in { String(i - 1) : i \in 1..Len(a) } |->
        a[CHOOSE i \in 1..Len(a) : String(i - 1) = k]]
SpreadNumber(n) == EmptyObj

(* { ...data, key: request.user?.id } for the keys given *)
Stamp(data, keys) ==
    [k \in DOMAIN data \cup keys |-> IF k \in keys THEN RequestUserId ELSE data[k]]

(* what the methods of the repository return *)
repositoryCreate(entityLike) == [type |-> "entity", of |-> entityLike]
repositorySave(entity) == [type |-> "saved", of |-> entity]
repositoryUpdate(criteria, partialEntity) ==
    [type |-> "UpdateResult", criteria |-> criteria, data |-> partialEntity]
repositoryUpsert(entityOrEntities, conflictPathsOrOptions) ==
    [type |-> "InsertResult", data |-> entityOrEntities,
     paths |-> conflictPathsOrOptions]
Undefined == [type |-> "undefined"]
ArrayOf(items) == [type |-> "array", items |-> items]

(* an operation that returned value after handing the objects of written to
   the repository, and one that raised after doing so *)
Returned(value, written) == [kind |-> "returned", value |-> value, written |-> written]
Raised(name, written) ==
    [kind |-> "raised", value |-> [type |-> name], written |-> written]

(* create(createData): part_004 maps an array, the others take one entity;
   DatabasesService saves what it created *)
create(w, createData, isArray) ==
    IF isArray
    THEN LET stamped == [i \in 1..Len(createData) |->
                            Stamp(createData[i], {"createdBy"})]
         IN  Returned(ArrayOf([i \in 1..Len(stamped) |-> repositoryCreate(stamped[i])]),
                      stamped)
    ELSE LET stamped == Stamp(createData, {"createdBy"})
         IN  IF w = "DatabasesService"
             THEN Returned(repositorySave(repositoryCreate(stamped)), << stamped >>)
             ELSE Returned(repositoryCreate(stamped), << stamped >>)

(* createMany(createData): part_005 creates through the repository of the
   closure and then reads this.repository, which the wrapper does not have;
   the second wrapper of part_004 reads this.repository before anything else *)
createMany(w, createData) ==
    LET stamped == [i \in 1..Len(createData) |-> Stamp(createData[i], {"createdBy"})]
    IN  IF w = "DatabasesService"
        THEN Returned(repositorySave(repositoryCreate(stamped)), stamped)
        ELSE IF w = "part_004_second"
        THEN Raised("TypeError", <<>>)
        ELSE Raised("TypeError", stamped)

(* update(criteria, updateDatabaseDto): part_004 with an array of criteria
   spreads each criterion, not the dto; the second wrapper of part_004
   defines no update, so that the call is the repository's own *)
update(w, criteria, updateDatabaseDto, isArray) ==
    IF w = "part_004" /\ isArray
    THEN LET written == [i \in 1..Len(criteria) |->
                            Stamp(SpreadNumber(criteria[i]), {"updatedBy"})]
         IN  Returned(ArrayOf([i \in 1..Len(criteria) |->
                                  repositoryUpdate(criteria[i], written[i])]),
                      written)
    ELSE IF w = "part_004_second"
    THEN Returned(repositoryUpdate(criteria, updateDatabaseDto),
                  << updateDatabaseDto >>)
    ELSE LET stamped == Stamp(updateDatabaseDto, {"updatedBy"})
         IN  Returned(repositoryUpdate(criteria, stamped), << stamped >>)

(* updateById(id, updateDatabaseDto): DatabasesService updates through its
   repository; the second wrapper of part_004 reads this.repository, which
   it does not have *)
updateById(w, id, updateDatabaseDto) ==
    IF w = "part_004_second"
    THEN Raised("TypeError", <<>>)
    ELSE LET stamped == Stamp(updateDatabaseDto, {"updatedBy"})
         IN  Returned(repositoryUpdate(id, stamped), << stamped >>)

(* upsert(entityOrEntities, conflictPathsOrOptions): every version spreads
   entityOrEntities itself; part_004 calls the repository once per entity of
   an array and has no return statement; its second wrapper reads
   this.repository, which it does not have *)
upsert(w, entityOrEntities, isArray) ==
    LET spread == IF isArray THEN SpreadArray(entityOrEntities) ELSE entityOrEntities
        stamped == Stamp(spread, {"createdBy", "updatedBy"})
    IN  IF w = "part_004"
        THEN Returned(Undefined,
                      IF isArray THEN [i \in 1..Len(entityOrEntities) |-> stamped]
                      ELSE << stamped >>)
        ELSE IF w = "part_004_second"
        THEN Raised("TypeError", <<>>)
        ELSE Returned(repositoryUpsert(stamped, ConflictPaths), << stamped >>)

RepoOps == {"create", "createMany", "update", "updateById", "upsert"}

Called(op, w, isArray, input, outcome) ==
    [op |-> op, wrapper |-> w, array |-> isArray, input |-> input,
     kind |-> outcome.kind, value |-> outcome.value, written |-> outcome.written]

RepoFrame ==
    UNCHANGED <<variant, prevUnpublishedRootHash, publishedRoots, publishedRootsBy,
                inflight, chain, latestRoot>>

Create ==
    /\ \E w \in Wrappers :
         \/ \E createData \in Entities :
              last' = Called("create", w, FALSE, createData,
                             create(w, createData, FALSE))
         \/ /\ w = "part_004"
            /\ \E createData \in EntityArrays :
                 last' = Called("create", w, TRUE, createData,
                                create(w, createData, TRUE))
    /\ RepoFrame

CreateMany ==
    /\ \E w \in Wrappers \ {"part_004"}, createData \in EntityArrays :
         last' = Called("createMany", w, TRUE, createData, createMany(w, createData))
    /\ RepoFrame

Update ==
    /\ \E w \in Wrappers \ {"DatabasesService"}, updateDatabaseDto \in Entities :
         \/ \E criteria \in Ids :
              last' = Called("update", w, FALSE, updateDatabaseDto,
                             update(w, criteria, updateDatabaseDto, FALSE))
         \/ \E criteria \in IdArrays :
              last' = Called("update", w, TRUE, updateDatabaseDto,
                             update(w, criteria, updateDatabaseDto, TRUE))
    /\ RepoFrame

UpdateById ==
    /\ \E w \in {"part_004_second", "DatabasesService"}, id \in Ids,
          updateDatabaseDto \in Entities :
         last' = Called("updateById", w, FALSE, updateDatabaseDto,
                        updateById(w, id, updateDatabaseDto))
    /\ RepoFrame

Upsert ==
    /\ \E w \in Wrappers :
         \/ \E entity \in Entities :
              last' = Called("upsert", w, FALSE, entity, upsert(w, entity, FALSE))
         \/ \E entities \in EntityArrays :
              last' = Called("upsert", w, TRUE, entities, upsert(w, entities, TRUE))
    /\ RepoFrame

NextRepo ==
    \/ Create
    \/ Update
    \/ UpdateById
    \/ Upsert
    \/ CreateMany

SpecRepo == Init /\ [][NextRepo]_vars

(* the stamps an operation sets *)
StampsOf(op) ==
    IF op \in {"create", "createMany"} THEN {"createdBy"}
    ELSE IF op \in {"update", "updateById"} THEN {"updatedBy"}
    ELSE {"createdBy", "updatedBy"}

(* the caller's data of the finished call, one object per entity *)
CallersData(call) == IF call.array THEN call.input ELSE << call.input >>

(* C28: every create, update and upsert through a wrapper, with one entity
   or with an array, hands the repository the caller's data with createdBy,
   updatedBy or both set to the id of the user of the request, whatever
   stamps the caller gave, and returns what the repository returned. *)
C28_WritesStampedData ==
    last.op \in RepoOps =>
        LET stamps == StampsOf(last.op)
        IN  /\ last.kind = "returned"
            /\ last.value # Undefined
            /\ IF last.op \in {"update", "updateById"}
               THEN /\ last.written # <<>>
                    /\ \A i \in 1..Len(last.written) :
                          last.written[i] = Stamp(last.input, stamps)
               ELSE LET data == CallersData(last)
                    IN  last.written = [j \in 1..Len(data) |-> Stamp(data[j], stamps)]

====
